---- MODULE Spec2Model ----
(***************************************************************************)
(* A model of the sslip.io DNS server core (package xip, xip.go): the      *)
(* name parser, the customization table, the blocklist, the k-v.io TXT     *)
(* protocol, the question dispatcher and the two background goroutines     *)
(* started by NewXip.  Names are strings, as in the source; a character is *)
(* a string of length one.                                                 *)
(***************************************************************************)
EXTENDS Integers, Sequences, FiniteSets, TLC

VARIABLES
    etcdUp,               \* x.Etcd is a live client (isEtcdNil() is false)
    etcdKv,               \* contents of the external etcd store
    TxtKvCustomizations,  \* the builtin key-value map
    BlocklistStrings,     \* x.BlocklistStrings
    BlocklistCDIRs,       \* x.BlocklistCDIRs
    BlocklistUpdated,     \* x.BlocklistUpdated
    Metrics,              \* x.Metrics
    tokens,               \* len(x.DnsAmplificationAttackDelay)
    filled,               \* iterations done by the producer's pre-fill loop
    sent,                 \* iterations done by the producer's second loop
    now,                  \* wall clock, in hours
    refresher,            \* the blocklist goroutine: its position and locals
    log,                  \* the QueryResponse calls made so far, with results
    prev,                 \* the server state the latest call started from
    tasks,                \* the response tasks: position, pending increments, loaded value
    lookup                \* a call of NameToA and NameToAAAA: the name and the results

vars == <<etcdUp, etcdKv, TxtKvCustomizations, BlocklistStrings, BlocklistCDIRs,
          BlocklistUpdated, Metrics, tokens, filled, sent, now, refresher, log,
          prev, tasks, lookup>>

-----------------------------------------------------------------------------
(* Strings *)

Char(s, i) == SubSeq(s, i, i)

Digits == {"0", "1", "2", "3", "4", "5", "6", "7", "8", "9"}

HexDigits ==
    Digits \cup {"a", "b", "c", "d", "e", "f"} \cup {"A", "B", "C", "D", "E", "F"}

UpperLetters == "ABCDEFGHIJKLMNOPQRSTUVWXYZ"

LowerLetters == "abcdefghijklmnopqrstuvwxyz"

IsUpper(c) == \E i \in 1..26 : Char(UpperLetters, i) = c

IsLower(c) == \E i \in 1..26 : Char(LowerLetters, i) = c

IsAlnum(c) == c \in Digits \/ IsUpper(c) \/ IsLower(c)

ToLowerChar(c) ==
    IF IsUpper(c)
    THEN Char(LowerLetters, CHOOSE i \in 1..26 : Char(UpperLetters, i) = c)
    ELSE c

RECURSIVE ToLower(_)
ToLower(s) ==
    IF s = "" THEN "" ELSE ToLowerChar(Char(s, 1)) \o ToLower(Tail(s))

HexVal(c) ==
    CASE c = "0" -> 0 [] c = "1" -> 1 [] c = "2" -> 2 [] c = "3" -> 3
      [] c = "4" -> 4 [] c = "5" -> 5 [] c = "6" -> 6 [] c = "7" -> 7
      [] c = "8" -> 8 [] c = "9" -> 9
      [] c \in {"a", "A"} -> 10 [] c \in {"b", "B"} -> 11
      [] c \in {"c", "C"} -> 12 [] c \in {"d", "D"} -> 13
      [] c \in {"e", "E"} -> 14 [] c \in {"f", "F"} -> 15

\* the number of leading characters of s that belong to set
RECURSIVE RunLen(_, _)
RunLen(s, set) ==
    IF s = "" \/ Char(s, 1) \notin set THEN 0 ELSE 1 + RunLen(Tail(s), set)

\* the value of a string of digits in the given base
RECURSIVE NumVal(_, _)
NumVal(s, base) ==
    IF s = "" THEN 0
    ELSE NumVal(SubSeq(s, 1, Len(s) - 1), base) * base + HexVal(Char(s, Len(s)))

\* strings.Contains
Contains(s, sub) ==
    \E i \in 1..(Len(s) - Len(sub) + 1) : SubSeq(s, i, i + Len(sub) - 1) = sub

HasSuffix(s, suf) ==
    Len(s) >= Len(suf) /\ SubSeq(s, Len(s) - Len(suf) + 1, Len(s)) = suf

\* strings.Replace(s, old, new, -1) for a single character old
RECURSIVE ReplaceChar(_, _, _)
ReplaceChar(s, old, new) ==
    IF s = "" THEN ""
    ELSE (IF Char(s, 1) = old THEN new ELSE Char(s, 1))
         \o ReplaceChar(Tail(s), old, new)

\* strings.Split(s, sep) for a single character sep
RECURSIVE Split(_, _)
Split(s, sep) ==
    IF \A i \in 1..Len(s) : Char(s, i) # sep THEN <<s>>
    ELSE LET i == CHOOSE k \in 1..Len(s) :
                     Char(s, k) = sep /\ \A j \in 1..(k - 1) : Char(s, j) # sep
         IN <<SubSeq(s, 1, i - 1)>> \o Split(SubSeq(s, i + 1, Len(s)), sep)

\* strings.Join
RECURSIVE Join(_, _)
Join(parts, sep) ==
    IF parts = <<>> THEN ""
    ELSE IF Len(parts) = 1 THEN parts[1]
    ELSE parts[1] \o sep \o Join(Tail(parts), sep)

Min(S) == CHOOSE x \in S : \A y \in S : x <= y

Max(S) == CHOOSE x \in S : \A y \in S : x >= y

-----------------------------------------------------------------------------
(* net.ParseIP.  An IP is a sequence of bytes; the nil IP is <<>>. *)

NilIP == <<>>

V4InV6Prefix == <<0, 0, 0, 0, 0, 0, 0, 0, 0, 0, 255, 255>>

\* net.parseIPv4: four decimal fields, each at most 255, without leading
\* zeroes; the result is the 16-byte form
RECURSIVE ParseIPv4Fields(_, _)
ParseIPv4Fields(s, p) ==
    IF Len(p) = 4 THEN (IF s = "" THEN V4InV6Prefix \o p ELSE NilIP)
    ELSE IF s = "" THEN NilIP
    ELSE IF Len(p) > 0 /\ Char(s, 1) # "." THEN NilIP
    ELSE LET t == IF Len(p) > 0 THEN Tail(s) ELSE s
             c == RunLen(t, Digits)
             n == NumVal(SubSeq(t, 1, c), 10)
         IN IF c = 0 \/ n > 255 THEN NilIP
            ELSE IF c > 1 /\ Char(t, 1) = "0" THEN NilIP
            ELSE ParseIPv4Fields(SubSeq(t, c + 1, Len(t)), Append(p, n))

ParseIPv4(s) == ParseIPv4Fields(s, <<>>)

Zeroes(n) == [i \in 1..n |-> 0]

\* the tail of net.parseIPv6: the whole string must be used, and the
\* ellipsis is expanded
V6Finish(s, ip, ellipsis) ==
    IF s # "" THEN NilIP
    ELSE IF Len(ip) < 16
         THEN IF ellipsis < 0 THEN NilIP
              ELSE SubSeq(ip, 1, ellipsis) \o Zeroes(16 - Len(ip))
                   \o SubSeq(ip, ellipsis + 1, Len(ip))
    ELSE IF ellipsis >= 0 THEN NilIP
    ELSE ip

\* the loop of net.parseIPv6: hex numbers followed by colons
RECURSIVE V6Loop(_, _, _)
V6Loop(s, ip, ellipsis) ==
    IF Len(ip) >= 16 THEN V6Finish(s, ip, ellipsis)
    ELSE
    LET c == RunLen(s, HexDigits)
        n == NumVal(SubSeq(s, 1, c), 16)
    IN  IF c = 0 \/ n > 65535 THEN NilIP
        ELSE IF c < Len(s) /\ Char(s, c + 1) = "."
        THEN IF (ellipsis < 0 /\ Len(ip) # 12) \/ Len(ip) + 4 > 16 THEN NilIP
             ELSE LET ip4 == ParseIPv4(s)
                  IN IF ip4 = NilIP THEN NilIP
                     ELSE V6Finish("", ip \o SubSeq(ip4, 13, 16), ellipsis)
        ELSE
        LET ip2 == ip \o <<n \div 256, n % 256>>
            s2 == SubSeq(s, c + 1, Len(s))
        IN  IF s2 = "" THEN V6Finish("", ip2, ellipsis)
            ELSE IF Char(s2, 1) # ":" \/ Len(s2) = 1 THEN NilIP
            ELSE IF Char(s2, 2) = ":"
            THEN IF ellipsis >= 0 THEN NilIP
                 ELSE IF Len(s2) = 2 THEN V6Finish("", ip2, Len(ip2))
                 ELSE V6Loop(SubSeq(s2, 3, Len(s2)), ip2, Len(ip2))
            ELSE V6Loop(Tail(s2), ip2, ellipsis)

ParseIPv6(s) ==
    IF Len(s) >= 2 /\ SubSeq(s, 1, 2) = "::"
    THEN IF Len(s) = 2 THEN Zeroes(16)
         ELSE V6Loop(SubSeq(s, 3, Len(s)), <<>>, 0)
    ELSE V6Loop(s, <<>>, -1)

\* net.ParseIP: the first of '.' and ':' in s decides the family
ParseIP(s) ==
    LET firsts == {i \in 1..Len(s) : Char(s, i) \in {".", ":"}}
    IN IF firsts = {} THEN NilIP
       ELSE IF Char(s, Min(firsts)) = "." THEN ParseIPv4(s)
       ELSE ParseIPv6(s)

\* net.IP.To4
To4(ip) ==
    IF Len(ip) = 4 THEN ip
    ELSE IF Len(ip) = 16 /\ SubSeq(ip, 1, 12) = V4InV6Prefix THEN SubSeq(ip, 13, 16)
    ELSE NilIP

\* net.IP.To16
To16(ip) ==
    IF Len(ip) = 4 THEN V4InV6Prefix \o ip
    ELSE IF Len(ip) = 16 THEN ip
    ELSE NilIP

-----------------------------------------------------------------------------
(* The recognisers ipv4REDashes, ipv4REDots and ipv6RE.  A position is the  *)
(* index of the next character to read; an operator named ...Ends gives the *)
(* set of positions at which a match of its sub-expression, started at a    *)
(* given position, can end.                                                 *)

\* (25[0-5]|(2[0-4]|1?[0-9])?[0-9]) as a predicate on the matched text
OctetText(t) ==
    /\ Len(t) \in 1..3
    /\ \A k \in 1..Len(t) : Char(t, k) \in Digits
    /\ Len(t) = 3 =>
          \/ Char(t, 1) = "2" /\ Char(t, 2) = "5" /\ Char(t, 3) \in {"0", "1", "2", "3", "4", "5"}
          \/ Char(t, 1) = "2" /\ Char(t, 2) \in {"0", "1", "2", "3", "4"}
          \/ Char(t, 1) = "1"

OctetEnds(s, i) ==
    {j \in (i + 1)..(i + 3) : j <= Len(s) + 1 /\ OctetText(SubSeq(s, i, j - 1))}

\* a literal character c read at one of the positions of I
LitEnds(s, I, c) == {i + 1 : i \in {k \in I : k <= Len(s) /\ Char(s, k) = c}}

OctetSepEnds(s, I, sep) == LitEnds(s, UNION {OctetEnds(s, i) : i \in I}, sep)

\* ((octet sep){3} octet)
IPv4Ends(s, I, sep) ==
    UNION {OctetEnds(s, k) :
             k \in OctetSepEnds(s, OctetSepEnds(s, OctetSepEnds(s, I, sep), sep), sep)}

\* [0-9a-fA-F]{lo,4}
HexEnds(s, i, lo) ==
    {j \in (i + lo)..(i + 4) :
        j <= Len(s) + 1 /\ \A k \in i..(j - 1) : Char(s, k) \in HexDigits}

\* [0-9a-fA-F]{1,4}-
HexDashEnds(s, I) == LitEnds(s, UNION {HexEnds(s, i, 1) : i \in I}, "-")

\* -[0-9a-fA-F]{lo,4}
DashHexEnds(s, I, lo) == UNION {HexEnds(s, i, lo) : i \in LitEnds(s, I, "-")}

RECURSIVE RepHexDash(_, _, _)
RepHexDash(s, I, n) ==
    IF n = 0 \/ I = {} THEN I ELSE RepHexDash(s, HexDashEnds(s, I), n - 1)

RECURSIVE RepDashHex(_, _, _, _)
RepDashHex(s, I, lo, n) ==
    IF n = 0 \/ I = {} THEN I ELSE RepDashHex(s, DashHexEnds(s, I, lo), lo, n - 1)

\* ([0-9a-fA-F]{1,4}-){lo,hi}
HexDashRange(s, I, lo, hi) == UNION {RepHexDash(s, I, n) : n \in lo..hi}

\* (-[0-9a-fA-F]{hexlo,4}){lo,hi}
DashHexRange(s, I, hexlo, lo, hi) == UNION {RepDashHex(s, I, hexlo, n) : n \in lo..hi}

RECURSIVE LitSeqEnds(_, _, _)
LitSeqEnds(s, I, lit) ==
    IF lit = "" THEN I ELSE LitSeqEnds(s, LitEnds(s, I, Char(lit, 1)), Tail(lit))

\* c{1,4}
LitRunEnds(s, I, c) ==
    LET one == LitEnds(s, I, c)
        two == LitEnds(s, one, c)
        three == LitEnds(s, two, c)
    IN one \cup two \cup three \cup LitEnds(s, three, c)

\* [0-9a-zA-Z]+
AlnumPlusEnds(s, I) ==
    {j \in 2..(Len(s) + 1) :
        \E i \in I : i < j /\ \A k \in i..(j - 1) : IsAlnum(Char(s, k))}

\* the twelve alternatives of the second group of ipv6RE
IPv6Ends(s, i) ==
    LET I == {i}
        dd == LitSeqEnds(s, I, "--")
        ffff == LitSeqEnds(s, dd, "ffff")
        mapped == LitEnds(s, ffff \cup LitRunEnds(s, LitEnds(s, ffff, "-"), "0"), "-")
    IN  UNION {
          UNION {HexEnds(s, k, 1) : k \in RepHexDash(s, I, 7)},
          LitEnds(s, HexDashRange(s, I, 1, 7), "-"),
          DashHexEnds(s, HexDashRange(s, I, 1, 6), 1),
          DashHexRange(s, HexDashRange(s, I, 1, 5), 1, 1, 2),
          DashHexRange(s, HexDashRange(s, I, 1, 4), 1, 1, 3),
          DashHexRange(s, HexDashRange(s, I, 1, 3), 1, 1, 4),
          DashHexRange(s, HexDashRange(s, I, 1, 2), 1, 1, 5),
          DashHexRange(s, HexDashEnds(s, I), 1, 1, 6),
          DashHexRange(s, LitEnds(s, I, "-"), 1, 1, 7) \cup dd,
          AlnumPlusEnds(s, LitEnds(s, DashHexRange(s, LitSeqEnds(s, I, "fe80-"), 0, 0, 4), "%")),
          IPv4Ends(s, dd \cup mapped, "."),
          IPv4Ends(s, LitEnds(s, HexDashRange(s, I, 1, 4), "-"), ".")
        }

\* all the matches of (^|[.-])(group)($|[.-]) in s, where group[i] is the
\* set of positions at which the second group, started at i, can end: p is
\* where a match starts, [a, b) is its second group and e is where it ends
Matches(s, group) ==
    LET starts == {<<1, 1>>} \cup
                  {<<p, p + 1>> : p \in {k \in 1..Len(s) : Char(s, k) \in {".", "-"}}}
        ends(b) == (IF b = Len(s) + 1 THEN {b} ELSE {}) \cup
                   (IF b <= Len(s) /\ Char(s, b) \in {".", "-"} THEN {b + 1} ELSE {})
    IN UNION {UNION {{[p |-> st[1], a |-> st[2], b |-> b, e |-> e] : e \in ends(b)}
                     : b \in group[st[2]]}
              : st \in starts}

\* the matches of each recogniser in s
ipv4REDots(s) == Matches(s, [i \in 1..(Len(s) + 1) |-> IPv4Ends(s, {i}, ".")])

ipv4REDashes(s) == Matches(s, [i \in 1..(Len(s) + 1) |-> IPv4Ends(s, {i}, "-")])

ipv6RE(s) == Matches(s, [i \in 1..(Len(s) + 1) |-> IPv6Ends(s, i)])

\* Regexp.Match, of the matches of the recogniser
Match(all) == all # {}

\* the matches that start last
Rightmost(all) == {m \in all : \A x \in all : m.p >= x.p}

\* the leftmost matches
Leftmost(all) == {m \in all : \A x \in all : m.p <= x.p}

\* among the leftmost matches, the longest ones once Regexp.Longest() has
\* been called
Preferred(left, longest) ==
    IF longest THEN {m \in left : \A x \in left : m.e >= x.e} ELSE left

\* a backtracking search tries the empty alternative of (^|[.-]) first
Anchored(pick) ==
    IF \E m \in pick : m.a = m.p THEN {m \in pick : m.a = m.p} ELSE pick

Furthest(anchored) == CHOOSE x \in anchored : \A y \in anchored : x.b >= y.b

Group2(s, m) == SubSeq(s, m.a, m.b - 1)

\* Regexp.FindSubmatch(s)[2], of the matches of the recogniser: the leftmost
\* match; among the matches that start there the first one a backtracking
\* search finds or, once Regexp.Longest() has been called, the longest one
FindSubmatch2(s, all, longest) ==
    Group2(s, Furthest(Anchored(Preferred(Leftmost(all), longest))))

-----------------------------------------------------------------------------
(* The customization table and the lookups by name *)

NoCustomization == [A |-> <<>>, AAAA |-> <<>>, CNAME |-> "", MX |-> <<>>, TXT |-> "nil"]

nsAwsA == [A |-> <<52, 0, 56, 137>>]

nsAwsAAAA == [AAAA |-> <<38, 0, 31, 24, 10, 175, 105, 0, 0, 0, 0, 0, 0, 0, 0, 10>>]

\* Customizations; a TXT field names the function the entry holds
Customizations ==
    [n \in {"sslip.io.", "ns.sslip.io.", "ns-aws.sslip.io.", "ns-azure.sslip.io.",
            "ns-gce.sslip.io.", "protonmail._domainkey.sslip.io.",
            "protonmail2._domainkey.sslip.io.", "protonmail3._domainkey.sslip.io.",
            "ip.sslip.io.", "version.status.sslip.io.", "metrics.status.sslip.io."} |->
       CASE n = "sslip.io." ->
              [NoCustomization EXCEPT
                 !.A = <<[A |-> <<78, 46, 204, 247>>]>>,
                 !.AAAA = <<[AAAA |-> <<42, 1, 4, 248, 12, 23, 11, 143, 0, 0, 0, 0, 0, 0, 0, 2>>]>>,
                 !.MX = <<[Pref |-> 10, MX |-> "mail.protonmail.ch."],
                          [Pref |-> 20, MX |-> "mailsec.protonmail.ch."]>>,
                 !.TXT = "sslipIo"]
         [] n = "ns.sslip.io." ->
              [NoCustomization EXCEPT
                 !.A = <<nsAwsA, [A |-> <<52, 187, 42, 158>>], [A |-> <<104, 155, 144, 4>>]>>,
                 !.AAAA = <<nsAwsAAAA>>]
         [] n = "ns-aws.sslip.io." ->
              [NoCustomization EXCEPT !.A = <<nsAwsA>>, !.AAAA = <<nsAwsAAAA>>]
         [] n = "ns-azure.sslip.io." ->
              [NoCustomization EXCEPT !.A = <<[A |-> <<52, 187, 42, 158>>]>>]
         [] n = "ns-gce.sslip.io." ->
              [NoCustomization EXCEPT !.A = <<[A |-> <<104, 155, 144, 4>>]>>]
         [] n = "protonmail._domainkey.sslip.io." ->
              [NoCustomization EXCEPT !.CNAME =
                 "protonmail.domainkey.dw4gykv5i2brtkjglrf34wf6kbxpa5hgtmg2xqopinhgxn5axo73a.domains.proton.ch."]
         [] n = "protonmail2._domainkey.sslip.io." ->
              [NoCustomization EXCEPT !.CNAME =
                 "protonmail2.domainkey.dw4gykv5i2brtkjglrf34wf6kbxpa5hgtmg2xqopinhgxn5axo73a.domains.proton.ch."]
         [] n = "protonmail3._domainkey.sslip.io." ->
              [NoCustomization EXCEPT !.CNAME =
                 "protonmail3.domainkey.dw4gykv5i2brtkjglrf34wf6kbxpa5hgtmg2xqopinhgxn5axo73a.domains.proton.ch."]
         [] n = "ip.sslip.io." -> [NoCustomization EXCEPT !.TXT = "ipSslipIo"]
         [] n = "version.status.sslip.io." -> [NoCustomization EXCEPT !.TXT = "version"]
         [] n = "metrics.status.sslip.io." -> [NoCustomization EXCEPT !.TXT = "metricsSslipIo"]]

NameServers ==
    <<[NS |-> "ns-aws.sslip.io."], [NS |-> "ns-azure.sslip.io."], [NS |-> "ns-gce.sslip.io."]>>

\* Customizations[strings.ToLower(fqdnString)], with the ok of the lookup
Customized(fqdnString) == ToLower(fqdnString) \in DOMAIN Customizations

Customization(fqdnString) == Customizations[ToLower(fqdnString)]

\* the resource of an address that net.ParseIP(match).To4() gave
ipv4Resources(ipv4address) ==
    IF ipv4address = NilIP THEN <<>> ELSE <<[A |-> ipv4address]>>

\* the body of the loop of NameToA, for the first recogniser that matches
ipv4Matched(fqdnString, all) ==
    IF ~Match(all) THEN <<>>
    ELSE ipv4Resources(To4(ParseIP(ReplaceChar(FindSubmatch2(fqdnString, all, FALSE), "-", "."))))

\* NameToA looking the name up as it is written
NameToACaseSensitive(fqdnString) ==
    IF fqdnString \in DOMAIN Customizations /\ Len(Customizations[fqdnString].A) > 0
    THEN Customizations[fqdnString].A
    ELSE IF Match(ipv4REDashes(fqdnString))
    THEN ipv4Matched(fqdnString, ipv4REDashes(fqdnString))
    ELSE ipv4Matched(fqdnString, ipv4REDots(fqdnString))

NameToA(fqdnString) ==
    IF Customized(fqdnString) /\ Len(Customization(fqdnString).A) > 0
    THEN Customization(fqdnString).A
    ELSE IF Match(ipv4REDashes(fqdnString))
    THEN ipv4Matched(fqdnString, ipv4REDashes(fqdnString))
    ELSE ipv4Matched(fqdnString, ipv4REDots(fqdnString))

\* the resource of an address that net.ParseIP(match).To16() gave
ipv6Resources(ipv16address) ==
    IF ipv16address = NilIP THEN <<>> ELSE <<[AAAA |-> ipv16address]>>

\* the body of NameToAAAA after the match, with the replacement NameToA makes
ipv6MatchedAsDots(fqdnString, all) ==
    IF ~Match(all) THEN <<>>
    ELSE ipv6Resources(To16(ParseIP(ReplaceChar(FindSubmatch2(fqdnString, all, TRUE), "-", "."))))

ipv6Matched(fqdnString, all) ==
    IF ~Match(all) THEN <<>>
    ELSE ipv6Resources(To16(ParseIP(ReplaceChar(FindSubmatch2(fqdnString, all, TRUE), "-", ":"))))

NameToAAAA(fqdnString) ==
    IF Customized(fqdnString) /\ Len(Customization(fqdnString).AAAA) > 0
    THEN Customization(fqdnString).AAAA
    ELSE ipv6Matched(fqdnString, ipv6RE(fqdnString))

\* the CNAME of the customization, or "" for the nil pointer
CNAMEResource(fqdnString) ==
    IF Customized(fqdnString) /\ Customization(fqdnString).CNAME # ""
    THEN Customization(fqdnString).CNAME
    ELSE ""

MXResources(fqdnString) ==
    IF Customized(fqdnString) /\ Len(Customization(fqdnString).MX) > 0
    THEN Customization(fqdnString).MX
    ELSE <<[Pref |-> 0, MX |-> fqdnString]>>

dns01Challenge == "_acme-challenge."

\* dns01ChallengeRE.MatchString: (?i)_acme-challenge\.
dns01ChallengeMatch(s) == Contains(ToLower(s), dns01Challenge)

\* dns01ChallengeRE.ReplaceAllString(s, "")
RECURSIVE dns01ChallengeStrip(_)
dns01ChallengeStrip(s) ==
    LET n == Len(dns01Challenge)
        at == {i \in 1..(Len(s) - n + 1) : ToLower(SubSeq(s, i, i + n - 1)) = dns01Challenge}
    IN IF at = {} THEN s
       ELSE SubSeq(s, 1, Min(at) - 1) \o dns01ChallengeStrip(SubSeq(s, Min(at) + n, Len(s)))

IsAcmeChallenge(fqdnString) ==
    /\ dns01ChallengeMatch(fqdnString)
    /\ (Len(NameToA(fqdnString)) > 0 \/ Len(NameToAAAA(fqdnString)) > 0)

\* kvRE.MatchString: \.k-v\.io\.$
kvMatch(fqdn) == HasSuffix(fqdn, ".k-v.io.")

SOAResource(name) ==
    [NS |-> name, MBox |-> "briancunnie.gmail.com.", Serial |-> 2022020800,
     Refresh |-> 900, Retry |-> 900, Expire |-> 1800, MinTTL |-> 180]

-----------------------------------------------------------------------------
(* The names the model queries, and what the functions above give for      *)
(* them, computed once.                                                    *)

LongValue == "aaaaaaaaaaaaaaaaaaaaaaaaaaaaaaaaaaaaaaaa.bbbbbbbbbbbbbbbbbbbbbbbbbbbbbbbbbbbbbbbb"

Names ==
    {"non-existent.sslip.io.", "sslip.io.", "ip.sslip.io.",
     "version.status.sslip.io.", "metrics.status.sslip.io.",
     "raiffeisen.192.168.0.1.sslip.io.", "raiffeisen.127.0.0.1.sslip.io.",
     "raiffeisen.1-9-9-30.sslip.io.", "Raiffeisen.1-9-9-30.sslip.io.",
     "52-0-56-137.sslip.io.",
     "raiffeisen.2600--1.sslip.io.", "2600-1f18-aaf-6900--a.sslip.io.",
     "_acme-challenge.1-9-9-30.sslip.io.", "_acme-challenge.raiffeisen.1-9-9-30.sslip.io.",
     "_acme-challenge.example.com.",
     "k.k-v.io."}

KvNames ==
    {"k.k-v.io.", "put.v.k.k-v.io.", "PuT.W.x.J.k-v.io.", "delete.k.k-v.io.",
     "put." \o LongValue \o ".k.k-v.io.", "put.k.k-v.io.",
     "put._acme-challenge.1-2-3-4.k-v.io.", "j.k-v.io.", "post.k.k-v.io."}

\* a decoding that takes the key as it is written
kvLabelsKeyAsWritten(fqdn) ==
    LET all == Split(fqdn, ".")
        labels == SubSeq(all, 1, Len(all) - 3)
    IN IF Len(labels) = 0 THEN [n |-> 0, verb |-> "", key |-> "", value |-> ""]
       ELSE [n |-> Len(labels),
             key |-> labels[Len(labels)],
             verb |-> IF Len(labels) = 1 THEN "get" ELSE ToLower(labels[1]),
             value |-> IF Len(labels) > 2 THEN Join(SubSeq(labels, 2, Len(labels) - 1), ".")
                       ELSE ""]

\* the labels of a name under k-v.io, as kvTXTResources decodes them
kvLabels(fqdn) ==
    LET all == Split(fqdn, ".")
        labels == SubSeq(all, 1, Len(all) - 3)
    IN IF Len(labels) = 0 THEN [n |-> 0, verb |-> "", key |-> "", value |-> ""]
       ELSE [n |-> Len(labels),
             key |-> ToLower(labels[Len(labels)]),
             verb |-> IF Len(labels) = 1 THEN "get" ELSE ToLower(labels[1]),
             value |-> IF Len(labels) > 2 THEN Join(SubSeq(labels, 2, Len(labels) - 1), ".")
                       ELSE ""]

NameFacts(fqdn) ==
    [NameToA |-> NameToA(fqdn), NameToAAAA |-> NameToAAAA(fqdn),
     IsAcmeChallenge |-> IsAcmeChallenge(fqdn),
     dns01ChallengeStrip |-> dns01ChallengeStrip(fqdn),
     ToLower |-> ToLower(fqdn), kvMatch |-> kvMatch(fqdn),
     CNAMEResource |-> CNAMEResource(fqdn), MXResources |-> MXResources(fqdn),
     kvLabels |-> IF kvMatch(fqdn) THEN kvLabels(fqdn) ELSE kvLabels("...")]

Queried ==
    Names \cup KvNames \cup {NameServers[i].NS : i \in 1..Len(NameServers)}

NameTable ==
    [fqdn \in Queried \cup {dns01ChallengeStrip(n) : n \in Queried} |-> NameFacts(fqdn)]

\* Of(fqdn).F is F(fqdn), for the names of the table
Of(fqdn) == NameTable[fqdn]

-----------------------------------------------------------------------------
(* The blocklist *)

\* net.IP.IsPrivate
IsPrivate(ip) ==
    LET ip4 == To4(ip)
    IN IF ip4 # NilIP
       THEN \/ ip4[1] = 10
            \/ ip4[1] = 172 /\ ip4[2] \div 16 = 1
            \/ ip4[1] = 192 /\ ip4[2] = 168
       ELSE Len(ip) = 16 /\ ip[1] \div 2 = 126

\* byte b under the mask byte that keeps its first ones bits
MaskByte(b, ones) ==
    LET keep == IF ones >= 8 THEN 8 ELSE IF ones <= 0 THEN 0 ELSE ones
    IN (b \div (2 ^ (8 - keep))) * (2 ^ (8 - keep))

\* net.IP.Mask with net.CIDRMask(ones, 8 * Len(ip))
MaskIP(ip, ones) == [i \in 1..Len(ip) |-> MaskByte(ip[i], ones - 8 * (i - 1))]

\* net.ParseCIDR: an IPNet is its masked IP, the ones of its mask and the
\* length in bits of its mask; NoCIDR stands for the error
NoCIDR == [IP |-> NilIP, Ones |-> 0, Bits |-> 0]

ParseCIDR(s) ==
    LET slashes == {i \in 1..Len(s) : Char(s, i) = "/"}
    IN IF slashes = {} THEN NoCIDR
       ELSE
       LET i == Min(slashes)
           addr == SubSeq(s, 1, i - 1)
           mask == SubSeq(s, i + 1, Len(s))
           ip4 == ParseIPv4(addr)
           iplen == IF ip4 # NilIP THEN 4 ELSE 16
           ip == IF ip4 # NilIP THEN ip4 ELSE ParseIPv6(addr)
           c == RunLen(mask, Digits)
           n == NumVal(SubSeq(mask, 1, c), 10)
       IN IF ip = NilIP \/ c = 0 \/ c # Len(mask) \/ n > 8 * iplen THEN NoCIDR
          ELSE [IP |-> MaskIP(IF iplen = 4 THEN To4(ip) ELSE ip, n), Ones |-> n, Bits |-> 8 * iplen]

\* net.IPNet.Contains
CIDRContains(net, ip) ==
    LET x == IF To4(ip) # NilIP THEN To4(ip) ELSE ip
        nn == IF To4(net.IP) # NilIP THEN To4(net.IP) ELSE net.IP
        ones == IF net.Bits = 128 /\ Len(nn) = 4 THEN net.Ones - 96 ELSE net.Ones
        usable == IF net.Bits = 128 /\ Len(nn) = 4 THEN net.Ones >= 96
                  ELSE Len(nn) * 8 = net.Bits
    IN /\ usable
       /\ Len(x) = Len(nn)
       /\ MaskIP(x, ones) = MaskIP(nn, ones)

\* the ip of blocklist: the last assignment wins
blocklistIP(aResources, aaaaResources) ==
    IF Len(aaaaResources) = 1 THEN aaaaResources[1].AAAA
    ELSE IF Len(aResources) = 1 THEN aResources[1].A
    ELSE NilIP

\* blocklist from ip.IsPrivate() on
blocklistOfIP(x, hostname, ip) ==
    IF IsPrivate(ip) THEN FALSE
    ELSE \/ \E i \in 1..Len(x.BlocklistStrings) : Contains(hostname, x.BlocklistStrings[i])
         \/ \E i \in 1..Len(x.BlocklistCDIRs) : CIDRContains(x.BlocklistCDIRs[i], ip)

\* blocklist once NameToA and NameToAAAA have answered
blocklistOfResources(x, hostname, aResources, aaaaResources) ==
    IF Len(aResources) = 0 /\ Len(aaaaResources) = 0 THEN FALSE
    ELSE blocklistOfIP(x, hostname, blocklistIP(aResources, aaaaResources))

\* (x *Xip) blocklist
blocklist(x, hostname) ==
    blocklistOfResources(x, hostname, Of(hostname).NameToA, Of(hostname).NameToAAAA)

-----------------------------------------------------------------------------
(* The key-value store behind k-v.io.  A map is a function on its keys. *)

EmptyMap == [k \in {} |-> ""]

MapPut(m, k, v) == [kk \in (DOMAIN m) \cup {k} |-> IF kk = k THEN v ELSE m[kk]]

MapDelete(m, k) == [kk \in (DOMAIN m) \ {k} |-> m[kk]]

TXT(s) == [TXT |-> <<s>>]

\* what a handler returns beside the server state x it leaves behind; a
\* handler that blocks forever returns nothing and is marked blocked
Returned(x, txts, err) == [x |-> x, txts |-> txts, err |-> err, blocked |-> FALSE]

\* getKv that answers a failed round trip like an absent key
getKvIgnoringErr(x, key, etcdOk) ==
    IF ~x.etcdUp
    THEN IF key \in DOMAIN x.TxtKvCustomizations
         THEN Returned(x, x.TxtKvCustomizations[key], FALSE)
         ELSE Returned(x, <<>>, FALSE)
    ELSE IF etcdOk /\ key \in DOMAIN x.etcdKv THEN Returned(x, <<TXT(x.etcdKv[key])>>, FALSE)
    ELSE Returned(x, <<>>, FALSE)

\* etcdOk is whether the etcd round trip answers within etcdContextTimeout
getKv(x, key, etcdOk) ==
    IF ~x.etcdUp
    THEN IF key \in DOMAIN x.TxtKvCustomizations
         THEN Returned(x, x.TxtKvCustomizations[key], FALSE)
         ELSE Returned(x, <<>>, FALSE)
    ELSE IF ~etcdOk THEN Returned(x, <<>>, TRUE)
    ELSE IF key \in DOMAIN x.etcdKv THEN Returned(x, <<TXT(x.etcdKv[key])>>, FALSE)
    ELSE Returned(x, <<>>, FALSE)

\* putKv that stores the value whole
putKvWhole(x, key, val, etcdOk) ==
    IF ~x.etcdUp
    THEN Returned([x EXCEPT !.TxtKvCustomizations = MapPut(@, key, <<TXT(val)>>)],
                  <<TXT(val)>>, FALSE)
    ELSE IF ~etcdOk THEN Returned(x, <<>>, TRUE)
    ELSE Returned([x EXCEPT !.etcdKv = MapPut(@, key, val)], <<TXT(val)>>, FALSE)


putKv(x, key, val, etcdOk) ==
    LET value == IF Len(val) > 63 THEN SubSeq(val, 1, 63) ELSE val
    IN IF ~x.etcdUp
       THEN Returned([x EXCEPT !.TxtKvCustomizations = MapPut(@, key, <<TXT(value)>>)],
                     <<TXT(value)>>, FALSE)
       ELSE IF ~etcdOk THEN Returned(x, <<>>, TRUE)
       ELSE Returned([x EXCEPT !.etcdKv = MapPut(@, key, value)], <<TXT(value)>>, FALSE)

\* deleteKv that empties the store
deleteKvWholeStore(x, key, etcdOk) ==
    IF ~x.etcdUp
    THEN Returned([x EXCEPT !.TxtKvCustomizations = EmptyMap], <<>>, FALSE)
    ELSE IF ~etcdOk THEN Returned(x, <<>>, TRUE)
    ELSE Returned([x EXCEPT !.etcdKv = EmptyMap], <<>>, FALSE)

deleteKv(x, key, etcdOk) ==
    IF ~x.etcdUp
    THEN Returned([x EXCEPT !.TxtKvCustomizations = MapDelete(@, key)], <<>>, FALSE)
    ELSE IF ~etcdOk THEN Returned(x, <<>>, TRUE)
    ELSE Returned([x EXCEPT !.etcdKv = MapDelete(@, key)], <<>>, FALSE)

\* kvTXTResources without the check for a put that has no value
kvVerbNoValueCheck(x, labels, etcdOk) ==
    CASE labels.verb = "get" -> getKv(x, labels.key, etcdOk)
      [] labels.verb = "put" -> putKv(x, labels.key, labels.value, etcdOk)
      [] labels.verb = "delete" -> deleteKv(x, labels.key, etcdOk)
      [] OTHER -> Returned(x, <<TXT("422: valid verbs are get, put, delete")>>, FALSE)

\* the switch of kvTXTResources on the verb
kvVerb(x, labels, etcdOk) ==
    CASE labels.verb = "get" -> getKv(x, labels.key, etcdOk)
      [] labels.verb = "put" ->
           IF labels.n = 2
           THEN Returned(x, <<TXT("422: missing a value: put.value.key.k-v.io")>>, FALSE)
           ELSE putKv(x, labels.key, labels.value, etcdOk)
      [] labels.verb = "delete" -> deleteKv(x, labels.key, etcdOk)
      [] OTHER -> Returned(x, <<TXT("422: valid verbs are get, put, delete")>>, FALSE)

kvTXTResources(x, fqdn, etcdOk) == kvVerb(x, Of(fqdn).kvLabels, etcdOk)

-----------------------------------------------------------------------------
(* The TXT producers of the customization table *)

MetricsBufferSize == 1

\* strconv for one hexadecimal digit
HexChar(d) == Char("0123456789abcdef", d + 1)

\* appendHex: lower case, no leading zeroes
RECURSIVE HexString(_)
HexString(n) == IF n < 16 THEN HexChar(n) ELSE HexString(n \div 16) \o HexChar(n % 16)

\* net.IP.String
IPString(ip) ==
    IF Len(ip) = 0 THEN "<nil>"
    ELSE IF To4(ip) # NilIP
    THEN LET p4 == To4(ip)
         IN ToString(p4[1]) \o "." \o ToString(p4[2]) \o "." \o ToString(p4[3])
            \o "." \o ToString(p4[4])
    ELSE
    LET g == [k \in 1..8 |-> ip[2 * k - 1] * 256 + ip[2 * k]]
        \* the zero groups from i on
        run(i) == Min({j \in i..9 : j = 9 \/ g[j] # 0}) - i
        best == Max({run(i) : i \in 1..8})
        e0 == Min({i \in 1..8 : run(i) = best})
        hex(lo, hi) == Join([k \in 1..(hi - lo + 1) |-> HexString(g[lo + k - 1])], ":")
    IN IF best < 2 THEN hex(1, 8)
       ELSE hex(1, e0 - 1) \o "::" \o hex(e0 + best, 8)

\* fmt's %.1f of n/d
Rate(n, d) ==
    IF d = 0 THEN (IF n = 0 THEN "NaN" ELSE "+Inf")
    ELSE LET tenths == (20 * n + d) \div (2 * d)
         IN ToString(tenths \div 10) \o "." \o ToString(tenths % 10)

ZeroTime == -1

\* time.Time.Format("2006-01-02 15:04:05-07") of a clock that counts hours
TimeString(tm) ==
    IF tm = ZeroTime THEN "0001-01-01 00:00:00+00" ELSE "start+" \o ToString(tm) \o "h"

Inc(x, counter) == [x EXCEPT !.Metrics[counter] = @ + 1, !.incs = Append(@, counter)]

sslipIoTXT(x) ==
    Returned(x, <<TXT("protonmail-verification=ce0ca3f5010aa7a2cf8bcc693778338ffde73e26"),
                  TXT("v=spf1 include:_spf.protonmail.ch mx ~all")>>, FALSE)

ipSslipIo(x, srcAddr) ==
    Returned(Inc(x, "AnsweredTXTSrcIPQueries"), <<TXT(IPString(srcAddr))>>, FALSE)

versionTXT(x) ==
    Returned(Inc(x, "AnsweredXTVersionQueries"),
             <<TXT("0.0.0"), TXT("0001/01/01-99:99:99-0800"), TXT("cafexxx")>>, FALSE)

\* metricsSslipIo that answers without a receive from the channel
metricsSslipIoNoReceive(x) ==
    Returned(x, <<TXT("Key-value store: " \o (IF x.etcdUp THEN "etcd" ELSE "builtin"))>>, FALSE)

\* the receive from x.DnsAmplificationAttackDelay blocks while the channel
\* is empty
metricsSslipIo(x) ==
    IF x.tokens = 0 THEN [Returned(x, <<>>, FALSE) EXCEPT !.blocked = TRUE]
    ELSE
    LET uptime == (x.now - x.Metrics.Start) * 3600
        m == x.Metrics
    IN Returned([x EXCEPT !.tokens = @ - 1],
         <<TXT("Uptime (seconds): " \o ToString(uptime)),
           TXT("Key-value store: " \o (IF x.etcdUp THEN "etcd" ELSE "builtin")),
           TXT("Blocklist: " \o TimeString(x.BlocklistUpdated) \o " "
               \o ToString(Len(x.BlocklistStrings)) \o "," \o ToString(Len(x.BlocklistCDIRs))),
           TXT("Queries: " \o ToString(m.Queries)),
           TXT("Queries/second: " \o Rate(m.Queries, uptime)),
           TXT("AnsQueries: " \o ToString(m.AnsweredQueries)),
           TXT("AnsQueries/second: " \o Rate(m.AnsweredQueries, uptime)),
           TXT("AnsA: " \o ToString(m.AnsweredAQueries)),
           TXT("AnsAAAA: " \o ToString(m.AnsweredAAAAQueries)),
           TXT("Source IP TXT: " \o ToString(m.AnsweredTXTSrcIPQueries)),
           TXT("Version TXT: " \o ToString(m.AnsweredXTVersionQueries)),
           TXT("DNS-01 challenge: " \o ToString(m.AnsweredNSDNS01ChallengeQueries)),
           TXT("Blocked: " \o ToString(m.AnsweredBlockedQueries))>>, FALSE)

\* domain.TXT(x, ip), where the customization has a TXT function
domainTXT(x, txt, ip) ==
    CASE txt = "sslipIo" -> sslipIoTXT(x)
      [] txt = "ipSslipIo" -> ipSslipIo(x, ip)
      [] txt = "version" -> versionTXT(x)
      [] txt = "metricsSslipIo" -> metricsSslipIo(x)
      [] OTHER -> Returned(x, <<>>, FALSE)

TXTResources(x, fqdn, ip, etcdOk) ==
    IF kvMatch(fqdn) THEN kvTXTResources(x, fqdn, etcdOk)
    ELSE IF Customized(fqdn) THEN domainTXT(x, Customization(fqdn).TXT, ip)
    ELSE Returned(x, <<>>, FALSE)

-----------------------------------------------------------------------------
(* The question dispatcher.  A section of a Response holds the resource    *)
(* records that its functions write into the dnsmessage.Builder.           *)

WeekTTL == 604800

KvTTL == 180

\* the record a Builder method writes: the method sets the type of the header
RR(name, type, ttl, body) ==
    [Name |-> name, Type |-> type, Class |-> "ClassINET", TTL |-> ttl, Body |-> body]

RRs(name, type, ttl, bodies) == [i \in 1..Len(bodies) |-> RR(name, type, ttl, bodies[i])]

RECURSIVE Flatten(_)
Flatten(seqs) == IF seqs = <<>> THEN <<>> ELSE Head(seqs) \o Flatten(Tail(seqs))

NewResponse ==
    [Header |-> [ID |-> 0, Response |-> TRUE, OpCode |-> 0, Authoritative |-> TRUE,
                 Truncated |-> FALSE, RecursionDesired |-> FALSE,
                 RecursionAvailable |-> FALSE, RCode |-> "RCodeSuccess"],
     Answers |-> <<>>, Authorities |-> <<>>, Additionals |-> <<>>]

\* what processQuestion and the handlers it delegates to return
Processed(x, response, err) == [x |-> x, response |-> response, err |-> err, blocked |-> FALSE]

\* SOAAuthority, as the one function appended to response.Authorities
WithSOAAuthority(response, name) ==
    [response EXCEPT !.Authorities = @ \o <<RR(name, "TypeSOA", WeekTTL, SOAResource(name))>>]

\* NSResources that delegates an ACME challenge without asking the blocklist
NSResourcesAcmeFirst(x, fqdnString) ==
    IF Of(fqdnString).IsAcmeChallenge
    THEN [x |-> Inc(x, "AnsweredNSDNS01ChallengeQueries"),
          ns |-> <<[NS |-> dns01ChallengeStrip(fqdnString)]>>]
    ELSE IF blocklist(x, fqdnString)
    THEN [x |-> Inc(Inc(x, "AnsweredQueries"), "AnsweredBlockedQueries"), ns |-> NameServers]
    ELSE [x |-> Inc(x, "AnsweredQueries"), ns |-> NameServers]

\* NSResources without the branch for ACME challenges
NSResourcesNoAcme(x, fqdnString) ==
    IF blocklist(x, fqdnString)
    THEN [x |-> Inc(Inc(x, "AnsweredQueries"), "AnsweredBlockedQueries"), ns |-> NameServers]
    ELSE [x |-> Inc(x, "AnsweredQueries"), ns |-> NameServers]


NSResources(x, fqdnString) ==
    IF blocklist(x, fqdnString)
    THEN [x |-> Inc(Inc(x, "AnsweredQueries"), "AnsweredBlockedQueries"), ns |-> NameServers]
    ELSE IF Of(fqdnString).IsAcmeChallenge
    THEN [x |-> Inc(x, "AnsweredNSDNS01ChallengeQueries"),
          ns |-> <<[NS |-> dns01ChallengeStrip(fqdnString)]>>]
    ELSE [x |-> Inc(x, "AnsweredQueries"), ns |-> NameServers]

\* the glue records of the name servers
NSAdditionals(nameServers) ==
    Flatten([i \in 1..Len(nameServers) |->
               RRs(nameServers[i].NS, "TypeA", WeekTTL, Of(nameServers[i].NS).NameToA)
               \o RRs(nameServers[i].NS, "TypeAAAA", WeekTTL, Of(nameServers[i].NS).NameToAAAA)])

\* the name servers placed in the Answers whatever the header says
NSPlacedInAnswers(response, records) == [response EXCEPT !.Answers = @ \o records]

\* the name servers go to the Answers of an authoritative response and to
\* the Authorities of a delegation
NSPlaced(response, records) ==
    IF response.Header.Authoritative
    THEN [response EXCEPT !.Answers = @ \o records]
    ELSE [response EXCEPT !.Authorities = @ \o records]

\* NSResponse once x.NSResources has answered r
NSResponseOf(r, name, response) ==
    Processed(r.x,
              [NSPlaced(response, RRs(name, "TypeNS", WeekTTL, r.ns))
                 EXCEPT !.Additionals = @ \o NSAdditionals(r.ns)],
              FALSE)

NSResponse(x, name, response) == NSResponseOf(NSResources(x, name), name, response)

\* nameToAwithBlocklist without the test of the blocklist
nameToAnoBlocklist(x, q, response) ==
    IF Len(Of(q.Name).NameToA) = 0
    THEN Processed(x, WithSOAAuthority(response, q.Name), FALSE)
    ELSE Processed(Inc(Inc(x, "AnsweredQueries"), "AnsweredAQueries"),
                   [response EXCEPT !.Answers = @ \o
                       RRs(q.Name, "TypeA", WeekTTL, Of(q.Name).NameToA)],
                   FALSE)


nameToAwithBlocklist(x, q, response) ==
    IF Len(Of(q.Name).NameToA) = 0
    THEN Processed(x, WithSOAAuthority(response, q.Name), FALSE)
    ELSE IF blocklist(x, q.Name)
    THEN Processed(Inc(Inc(x, "AnsweredQueries"), "AnsweredBlockedQueries"),
                   [response EXCEPT !.Answers = @ \o
                       <<RR(q.Name, "TypeA", WeekTTL, Customizations["ns-aws.sslip.io."].A[1])>>],
                   FALSE)
    ELSE Processed(Inc(Inc(x, "AnsweredQueries"), "AnsweredAQueries"),
                   [response EXCEPT !.Answers = @ \o
                       RRs(q.Name, "TypeA", WeekTTL, Of(q.Name).NameToA)],
                   FALSE)

nameToAAAAwithBlocklist(x, q, response) ==
    IF Len(Of(q.Name).NameToAAAA) = 0
    THEN Processed(x, WithSOAAuthority(response, q.Name), FALSE)
    ELSE IF blocklist(x, q.Name)
    THEN Processed(Inc(Inc(x, "AnsweredQueries"), "AnsweredBlockedQueries"),
                   [response EXCEPT !.Answers = @ \o
                       <<RR(q.Name, "TypeAAAA", WeekTTL, Customizations["ns-aws.sslip.io."].AAAA[1])>>],
                   FALSE)
    ELSE Processed(Inc(Inc(x, "AnsweredQueries"), "AnsweredAAAAQueries"),
                   [response EXCEPT !.Answers = @ \o
                       RRs(q.Name, "TypeAAAA", WeekTTL, Of(q.Name).NameToAAAA)],
                   FALSE)

\* the TXT case once x.TXTResources has answered r
txtAnswered(x, q, response, r) ==
    IF r.blocked THEN [Processed(x, response, FALSE) EXCEPT !.blocked = TRUE]
    ELSE IF r.err THEN Processed(r.x, response, TRUE)
    ELSE Processed(IF Len(r.txts) > 0 THEN Inc(r.x, "AnsweredQueries") ELSE r.x,
                   [response EXCEPT !.Answers = @ \o RRs(q.Name, "TypeTXT", KvTTL, r.txts)],
                   FALSE)

\* the TXT case for an ACME challenge once x.NSResources has answered r
txtDelegated(r, q, response) ==
    Processed(r.x, [response EXCEPT !.Header.Authoritative = FALSE,
                                    !.Authorities = @ \o RRs(q.Name, "TypeNS", WeekTTL, r.ns)],
              FALSE)

\* txtQuestion that stays authoritative for ACME challenges
txtQuestionAuthoritative(x, q, srcAddr, response, etcdOk) ==
    IF Of(q.Name).IsAcmeChallenge
    THEN LET r == NSResources(x, q.Name)
         IN Processed(r.x, [response EXCEPT
                              !.Authorities = @ \o RRs(q.Name, "TypeNS", WeekTTL, r.ns)],
                      FALSE)
    ELSE txtAnswered(x, q, response, TXTResources(x, q.Name, srcAddr, etcdOk))

\* case dnsmessage.TypeTXT of processQuestion
txtQuestion(x, q, srcAddr, response, etcdOk) ==
    IF Of(q.Name).IsAcmeChallenge
    THEN txtDelegated(NSResources(x, q.Name), q, response)
    ELSE CHOOSE p \in {txtAnswered(x, q, response, r) :
                          r \in {TXTResources(x, q.Name, srcAddr, etcdOk)}} : TRUE

\* TypeALL answered like a type the switch does not know
allQuestionAsDefault(x, q, response) ==
    Processed(x, WithSOAAuthority(response, q.Name), FALSE)

\* case dnsmessage.TypeALL
allQuestion(x, q, response) ==
    Processed(x, [response EXCEPT !.Header.RCode = "RCodeNotImplemented"], FALSE)

\* case dnsmessage.TypeCNAME
cnameQuestion(x, q, response) ==
    IF CNAMEResource(q.Name) = ""
    THEN Processed(x, WithSOAAuthority(response, q.Name), FALSE)
    ELSE Processed(Inc(x, "AnsweredQueries"),
                   [response EXCEPT !.Answers = @ \o
                       <<RR(q.Name, "TypeCNAME", WeekTTL, [CNAME |-> CNAMEResource(q.Name)])>>],
                   FALSE)

\* case dnsmessage.TypeMX
mxQuestion(x, q, response) ==
    IF Len(MXResources(q.Name)) = 0 THEN Processed(x, response, TRUE)
    ELSE Processed(Inc(x, "AnsweredQueries"),
                   [response EXCEPT !.Answers = @ \o
                       RRs(q.Name, "TypeMX", WeekTTL, MXResources(q.Name))],
                   FALSE)

\* case dnsmessage.TypeSOA
soaQuestion(x, q, response) ==
    Processed(Inc(x, "AnsweredQueries"),
              [response EXCEPT !.Answers = @ \o
                  <<RR(q.Name, "TypeSOA", WeekTTL, SOAResource(q.Name))>>],
              FALSE)

\* the default case without the SOA record
defaultQuestionNoSOA(x, q, response) == Processed(x, response, FALSE)

\* default: of the switch on q.Type
defaultQuestion(x, q, response) ==
    Processed(x, WithSOAAuthority(response, q.Name), FALSE)

processQuestion(x, q, srcAddr, etcdOk) ==
    LET response == NewResponse
    IN IF Of(q.Name).IsAcmeChallenge /\ ~blocklist(x, q.Name)
       THEN NSResponse(x, q.Name, [response EXCEPT !.Header.Authoritative = FALSE])
       ELSE CASE q.Type = "TypeA" -> nameToAwithBlocklist(x, q, response)
              [] q.Type = "TypeAAAA" -> nameToAAAAwithBlocklist(x, q, response)
              [] q.Type = "TypeALL" -> allQuestion(x, q, response)
              [] q.Type = "TypeCNAME" -> cnameQuestion(x, q, response)
              [] q.Type = "TypeMX" -> mxQuestion(x, q, response)
              [] q.Type = "TypeNS" -> NSResponse(x, q.Name, response)
              [] q.Type = "TypeSOA" -> soaQuestion(x, q, response)
              [] q.Type = "TypeTXT" -> txtQuestion(x, q, srcAddr, response, etcdOk)
              [] OTHER -> defaultQuestion(x, q, response)

\* what QueryResponse returns: the error, and the packed response (none
\* when there is an error)
Answer(x, err, message) == [x |-> x, err |-> err, message |-> message, blocked |-> FALSE]

\* queryBytes is the outcome of parsing it: parsed tells whether the header
\* and the first question could be read
\* QueryResponse returning the header as processQuestion left it
QueryResponseAfterNoCopy(x, queryBytes, r) ==
    IF r.blocked THEN [Answer(x, FALSE, <<>>) EXCEPT !.blocked = TRUE]
    ELSE IF r.err THEN Answer(r.x, TRUE, <<>>)
    ELSE Answer(Inc(r.x, "Queries"), FALSE, <<r.response>>)

\* QueryResponse once x.processQuestion has answered r
QueryResponseAfter(x, queryBytes, r) ==
    IF r.blocked THEN [Answer(x, FALSE, <<>>) EXCEPT !.blocked = TRUE]
    ELSE IF r.err THEN Answer(r.x, TRUE, <<>>)
    ELSE Answer(Inc(r.x, "Queries"), FALSE,
                <<[r.response EXCEPT
                     !.Header.ID = queryBytes.ID,
                     !.Header.RecursionDesired = queryBytes.RecursionDesired]>>)

QueryResponseOf(x, queryBytes, srcAddr, etcdOk) ==
    IF ~queryBytes.parsed THEN Answer(x, TRUE, <<>>)
    ELSE CHOOSE answer \in {QueryResponseAfter(x, queryBytes, r) :
                               r \in {processQuestion(x, queryBytes.q, srcAddr, etcdOk)}} : TRUE

-----------------------------------------------------------------------------
(* Downloading the blocklist *)

\* regexp.ReplaceAllString(line, "") for a negated character class
Keep(s, class) ==
    LET F[i \in 0..Len(s)] ==
          IF i = 0 THEN ""
          ELSE IF Char(s, i) \in class THEN F[i - 1] \o Char(s, i) ELSE F[i - 1]
    IN F[Len(s)]

\* comments.ReplaceAllString(line, "") for `#.*`
StripComment(s) ==
    LET hashes == {i \in 1..Len(s) : Char(s, i) = "#"}
    IN IF hashes = {} THEN s ELSE SubSeq(s, 1, Min(hashes) - 1)

DNSchars == {Char(LowerLetters, i) : i \in 1..26} \cup Digits \cup {"-", "_"}

\* a loop body that appends the line as it is after the first clean-up
ReadBlocklistLineOnceCleaned(acc, text) ==
    LET line == Keep(StripComment(ToLower(text)), DNSchars \cup {"/", ".", ":"})
        ipcidr == ParseCIDR(line)
    IN IF ipcidr = NoCIDR
       THEN IF line = "" THEN acc ELSE <<Append(acc[1], line), acc[2]>>
       ELSE <<acc[1], Append(acc[2], ipcidr)>>

\* the loop body of ReadBlocklist: acc is <<stringBlocklists, cidrBlocklists>>
ReadBlocklistLine(acc, text) ==
    LET line == Keep(StripComment(ToLower(text)), DNSchars \cup {"/", ".", ":"})
        ipcidr == ParseCIDR(line)
        name == Keep(line, DNSchars)
    IN IF ipcidr = NoCIDR
       THEN IF name = "" THEN acc ELSE <<Append(acc[1], name), acc[2]>>
       ELSE <<acc[1], Append(acc[2], ipcidr)>>

\* a reader is the lines the scanner yields and whether it then fails
ReadBlocklist(reader) ==
    LET F[i \in 0..Len(reader.lines)] ==
          IF i = 0 THEN <<(<<>>), (<<>>)>> ELSE ReadBlocklistLine(F[i - 1], reader.lines[i])
        all == F[Len(reader.lines)]
    IN IF reader.scanErr
       THEN [blocklistStrings |-> <<>>, blocklistCDIRs |-> <<>>, err |-> TRUE]
       ELSE [blocklistStrings |-> all[1], blocklistCDIRs |-> all[2], err |-> FALSE]

\* get is what http.Get gives: a transport error, or a status and a body
readBlocklist(get) ==
    IF get.err THEN [blocklistStrings |-> <<>>, blocklistCDIRs |-> <<>>, err |-> TRUE]
    ELSE IF get.StatusCode > 299
    THEN [blocklistStrings |-> <<>>, blocklistCDIRs |-> <<>>, err |-> FALSE]
    ELSE ReadBlocklist(get.Body)

-----------------------------------------------------------------------------
(* The server as a state machine: QueryResponse calls handled one at a     *)
(* time, the blocklist goroutine and the token goroutine of NewXip, and a  *)
(* clock.                                                                  *)

MaxCalls == 1

MaxKvCalls == 4

MaxTime == 1

\* the receiver x of the methods
Xip ==
    [etcdUp |-> etcdUp, etcdKv |-> etcdKv, TxtKvCustomizations |-> TxtKvCustomizations,
     BlocklistStrings |-> BlocklistStrings, BlocklistCDIRs |-> BlocklistCDIRs,
     BlocklistUpdated |-> BlocklistUpdated, Metrics |-> Metrics, tokens |-> tokens,
     now |-> now, incs |-> <<>>]

NewMetrics ==
    [Start |-> 0, Queries |-> 0, AnsweredQueries |-> 0, AnsweredAQueries |-> 0,
     AnsweredAAAAQueries |-> 0, AnsweredTXTSrcIPQueries |-> 0,
     AnsweredXTVersionQueries |-> 0, AnsweredNSDNS01ChallengeQueries |-> 0,
     AnsweredBlockedQueries |-> 0]

Types ==
    {"TypeA", "TypeAAAA", "TypeALL", "TypeCNAME", "TypeMX", "TypeNS", "TypeSOA", "TypeTXT",
     "TypePTR"}

\* a packet the server receives: the header fields QueryResponse copies and
\* the address it came from
Packets ==
    {[ID |-> 7, RecursionDesired |-> TRUE,
      srcAddr |-> <<38, 0, 0, 0, 0, 0, 0, 0, 0, 0, 0, 0, 0, 0, 0, 1>>]}

Malformed == [Name |-> "", Type |-> ""]

Body1 ==
    [lines |-> <<"# phishing", "Raiffeisen  # bank", "52.0.56.0/24", "2600:1f18::/32", "",
                 " ... GAMMA!~ ... #asdfasdf#asdfasdf", " 43.134.66.67/24 #asdfasdf",
                 "10.9.9.9/33", "NO-YELLING_">>,
     scanErr |-> FALSE]

HTTPGets ==
    {[err |-> TRUE, StatusCode |-> 0, Body |-> [lines |-> <<>>, scanErr |-> FALSE]],
     [err |-> FALSE, StatusCode |-> 404, Body |-> [lines |-> <<"Not Found">>, scanErr |-> FALSE]],
     [err |-> FALSE, StatusCode |-> 200, Body |-> Body1],
     [err |-> FALSE, StatusCode |-> 200, Body |-> [Body1 EXCEPT !.scanErr = TRUE]]}

MaxTasks == 2

\* the response tasks, one per query in flight
Tasks == 1..MaxTasks

Blocklist == <<BlocklistStrings, BlocklistCDIRs, BlocklistUpdated>>

\* the server NewXip returns
NewXip ==
    /\ etcdUp \in BOOLEAN
    /\ etcdKv = EmptyMap
    /\ TxtKvCustomizations = EmptyMap
    /\ BlocklistStrings = <<>>
    /\ BlocklistCDIRs = <<>>
    /\ BlocklistUpdated = ZeroTime
    /\ Metrics = NewMetrics
    /\ tokens = 0
    /\ filled = 0
    /\ sent = 0
    /\ now = 0
    /\ refresher = [pc |-> "readBlocklist", blocklistStrings |-> <<>>, blocklistCDIRs |-> <<>>,
                    wake |-> 0,
                    get |-> [err |-> FALSE, StatusCode |-> 0,
                             Body |-> [lines |-> <<>>, scanErr |-> FALSE]]]
    /\ log = <<>>
    /\ prev = Xip
    /\ tasks = [t \in Tasks |-> [pc |-> "idle", incs |-> <<>>, local |-> 0, call |-> <<>>]]

Init == NewXip /\ lookup = [fqdnString |-> "", pc |-> "none", A |-> <<>>, AAAA |-> <<>>]

\* one call of QueryResponse, from its first line to its return
QueryBytes(q, packet) ==
    [parsed |-> q # Malformed, ID |-> packet.ID,
     RecursionDesired |-> packet.RecursionDesired, q |-> q]

\* the return of QueryResponse with r
Return(queryBytes, packet, etcdOk, r) ==
    /\ ~r.blocked
    /\ etcdKv' = r.x.etcdKv
    /\ TxtKvCustomizations' = r.x.TxtKvCustomizations
    /\ Metrics' = r.x.Metrics
    /\ tokens' = r.x.tokens
    /\ log' = Append(log, [queryBytes |-> queryBytes, srcAddr |-> packet.srcAddr,
                           etcdOk |-> etcdOk, err |-> r.err, message |-> r.message])
    /\ prev' = Xip
    /\ UNCHANGED <<etcdUp, BlocklistStrings, BlocklistCDIRs, BlocklistUpdated,
                   filled, sent, now, refresher, tasks, lookup>>

Call(q, packet, etcdOk) ==
    Return(QueryBytes(q, packet), packet, etcdOk,
           QueryResponseOf(Xip, QueryBytes(q, packet), packet.srcAddr, etcdOk))

\* the etcd round trip can fail only where there is one
EtcdOutcomes(q) == IF etcdUp /\ q.Type = "TypeTXT" /\ kvMatch(q.Name) THEN BOOLEAN ELSE {TRUE}

QueryResponse ==
    /\ Len(log) < MaxCalls
    /\ \E q \in [Name : Names, Type : Types] \cup {Malformed}, packet \in Packets :
         \E etcdOk \in EtcdOutcomes(q) : Call(q, packet, etcdOk)

KvQueryResponse ==
    /\ Len(log) < MaxKvCalls
    /\ \E q \in [Name : KvNames, Type : {"TypeTXT"}], packet \in Packets :
         \E etcdOk \in EtcdOutcomes(q) : Call(q, packet, etcdOk)

\* the blocklist goroutine: readBlocklist, then on success three stores, then
\* time.Sleep(1 * time.Hour)
RefresherRead ==
    /\ refresher.pc = "readBlocklist"
    /\ \E get \in HTTPGets :
         \E r \in {readBlocklist(get)} :
           refresher' =
             IF r.err
             THEN [refresher EXCEPT !.pc = "Sleep", !.wake = now + 1, !.get = get]
             ELSE [refresher EXCEPT !.pc = "BlocklistStrings", !.get = get,
                                    !.blocklistStrings = r.blocklistStrings,
                                    !.blocklistCDIRs = r.blocklistCDIRs]
    /\ UNCHANGED <<etcdUp, etcdKv, TxtKvCustomizations, BlocklistStrings, BlocklistCDIRs,
                   BlocklistUpdated, Metrics, tokens, filled, sent, now, log, prev, tasks, lookup>>

RefresherStoreStrings ==
    /\ refresher.pc = "BlocklistStrings"
    /\ BlocklistStrings' = refresher.blocklistStrings
    /\ refresher' = [refresher EXCEPT !.pc = "BlocklistCDIRs"]
    /\ UNCHANGED <<etcdUp, etcdKv, TxtKvCustomizations, BlocklistCDIRs, BlocklistUpdated,
                   Metrics, tokens, filled, sent, now, log, prev, tasks, lookup>>

RefresherStoreCDIRs ==
    /\ refresher.pc = "BlocklistCDIRs"
    /\ BlocklistCDIRs' = refresher.blocklistCDIRs
    /\ refresher' = [refresher EXCEPT !.pc = "BlocklistUpdated"]
    /\ UNCHANGED <<etcdUp, etcdKv, TxtKvCustomizations, BlocklistStrings, BlocklistUpdated,
                   Metrics, tokens, filled, sent, now, log, prev, tasks, lookup>>

RefresherStoreUpdated ==
    /\ refresher.pc = "BlocklistUpdated"
    /\ BlocklistUpdated' = now
    /\ refresher' = [refresher EXCEPT !.pc = "Sleep", !.wake = now + 1]
    /\ UNCHANGED <<etcdUp, etcdKv, TxtKvCustomizations, BlocklistStrings, BlocklistCDIRs,
                   Metrics, tokens, filled, sent, now, log, prev, tasks, lookup>>

RefresherWake ==
    /\ refresher.pc = "Sleep"
    /\ now >= refresher.wake
    /\ refresher' = [refresher EXCEPT !.pc = "readBlocklist"]
    /\ UNCHANGED <<etcdUp, etcdKv, TxtKvCustomizations, BlocklistStrings, BlocklistCDIRs,
                   BlocklistUpdated, Metrics, tokens, filled, sent, now, log, prev, tasks, lookup>>

\* the token goroutine: its first loop fills the buffer of the channel
ProducerFill ==
    /\ filled < MetricsBufferSize
    /\ tokens < MetricsBufferSize
    /\ tokens' = tokens + 1
    /\ filled' = filled + 1
    /\ UNCHANGED <<etcdUp, etcdKv, TxtKvCustomizations, BlocklistStrings, BlocklistCDIRs,
                   BlocklistUpdated, Metrics, sent, now, refresher, log, prev, tasks, lookup>>

\* a second loop that ends after its first send
ProducerSendOnce ==
    /\ filled = MetricsBufferSize
    /\ sent = 0
    /\ tokens < MetricsBufferSize
    /\ tokens' = tokens + 1
    /\ sent' = sent + 1
    /\ UNCHANGED <<etcdUp, etcdKv, TxtKvCustomizations, BlocklistStrings, BlocklistCDIRs,
                   BlocklistUpdated, Metrics, filled, now, refresher, log, prev, tasks, lookup>>

\* its second loop sends one token, sleeps 250 ms and repeats; a send blocks
\* while the buffer is full
ProducerSend ==
    /\ filled = MetricsBufferSize
    /\ tokens < MetricsBufferSize
    /\ tokens' = tokens + 1
    /\ sent' = sent + 1
    /\ UNCHANGED <<etcdUp, etcdKv, TxtKvCustomizations, BlocklistStrings, BlocklistCDIRs,
                   BlocklistUpdated, Metrics, filled, now, refresher, log, prev, tasks, lookup>>

\* an hour passes
Tick ==
    /\ now < MaxTime
    /\ now' = now + 1
    /\ UNCHANGED <<etcdUp, etcdKv, TxtKvCustomizations, BlocklistStrings, BlocklistCDIRs,
                   BlocklistUpdated, Metrics, tokens, filled, sent, refresher, log, prev, tasks, lookup>>

Next ==
    \/ QueryResponse
    \/ RefresherRead
    \/ RefresherStoreStrings
    \/ RefresherStoreCDIRs
    \/ RefresherStoreUpdated
    \/ RefresherWake
    \/ ProducerFill
    \/ ProducerSend
    \/ Tick

Spec == Init /\ [][Next]_vars

\* the key-value protocol alone: sequences of TXT queries under k-v.io
NextKv == KvQueryResponse

SpecKv == Init /\ [][NextKv]_vars

-----------------------------------------------------------------------------
(* Queries handled concurrently: one response task per query, and each      *)
(* x.Metrics.<counter>++ of a task a load followed by a store of the plain  *)
(* int field                                                                *)

MaxRaceCalls == 3

\* the queries the concurrent tasks answer
RaceQueries ==
    [Name : {"52-0-56-137.sslip.io.", "non-existent.sslip.io."}, Type : {"TypeA"}]
    \cup [Name : {"put.v.k.k-v.io.", "k.k-v.io."}, Type : {"TypeTXT"}]

\* the queries of the tasks that meet at the channel of tokens: none of them
\* takes its task to the map
LiveQueries ==
    [Name : {"metrics.status.sslip.io."}, Type : {"TypeTXT"}]

\* a query of queries arrives and a task is started for it.  The task of a query for the
\* metrics first waits at the receive from x.DnsAmplificationAttackDelay.
\* Any other task computes r: if r took it to the map TxtKvCustomizations
\* the task is in the map operation, and beyond that it has its increments
\* ahead of it, in program order
RaceStart(t, queries) ==
    /\ tasks[t].pc = "idle"
    /\ Len(log) + Cardinality({u \in Tasks : tasks[u].pc # "idle"}) < MaxRaceCalls
    /\ \E q \in queries, packet \in Packets :
         \E r \in {QueryResponseOf(Xip, QueryBytes(q, packet), packet.srcAddr, TRUE)} :
           IF q.Type = "TypeTXT" /\ Customized(q.Name)
              /\ Customization(q.Name).TXT = "metricsSslipIo"
           THEN /\ tasks' = [tasks EXCEPT ![t] =
                               [pc |-> "recv", incs |-> <<>>, local |-> 0,
                                call |-> <<[queryBytes |-> QueryBytes(q, packet),
                                            srcAddr |-> packet.srcAddr, etcdOk |-> TRUE,
                                            err |-> FALSE, message |-> <<>>]>>]]
                /\ UNCHANGED <<etcdKv, TxtKvCustomizations, prev>>
           ELSE /\ etcdKv' = r.x.etcdKv
                /\ TxtKvCustomizations' = r.x.TxtKvCustomizations
                /\ tasks' = [tasks EXCEPT ![t] =
                               [pc |-> IF /\ ~etcdUp /\ q.Type = "TypeTXT"
                                          /\ Of(q.Name).kvMatch
                                          /\ ~Of(q.Name).IsAcmeChallenge
                                          /\ \/ Of(q.Name).kvLabels.verb \in {"get", "delete"}
                                             \/ /\ Of(q.Name).kvLabels.verb = "put"
                                                /\ Of(q.Name).kvLabels.n > 2
                                       THEN "map"
                                       ELSE IF r.x.incs = <<>> THEN "return" ELSE "load",
                                incs |-> r.x.incs, local |-> 0,
                                call |-> <<[queryBytes |-> QueryBytes(q, packet),
                                            srcAddr |-> packet.srcAddr, etcdOk |-> TRUE,
                                            err |-> r.err, message |-> r.message]>>]]
                /\ prev' = Xip
    /\ UNCHANGED <<etcdUp, BlocklistStrings, BlocklistCDIRs, BlocklistUpdated, Metrics,
                   tokens, filled, sent, now, refresher, log, lookup>>

\* <-x.DnsAmplificationAttackDelay: the waiting task takes a token and
\* makes its answer
RaceRecv(t) ==
    /\ tasks[t].pc = "recv"
    /\ tokens > 0
    /\ \E c \in {tasks[t].call[1]} :
         \E r \in {QueryResponseOf(Xip, c.queryBytes, c.srcAddr, TRUE)} :
           /\ tokens' = r.x.tokens
           /\ tasks' = [tasks EXCEPT ![t] =
                          [pc |-> IF r.x.incs = <<>> THEN "return" ELSE "load",
                           incs |-> r.x.incs, local |-> 0,
                           call |-> <<[c EXCEPT !.err = r.err, !.message = r.message]>>]]
    /\ prev' = Xip
    /\ UNCHANGED <<etcdUp, etcdKv, TxtKvCustomizations, BlocklistStrings, BlocklistCDIRs,
                   BlocklistUpdated, Metrics, filled, sent, now, refresher, log, lookup>>

\* the map operation of getKv, putKv or deleteKv ends.  The map is a plain
\* Go map: where another task is in a map operation and one of the two
\* writes, the runtime may throw its fatal error, which ends the process
RaceMap(t) ==
    /\ tasks[t].pc = "map"
    /\ \/ tasks' = [tasks EXCEPT ![t].pc = IF tasks[t].incs = <<>> THEN "return" ELSE "load"]
       \/ /\ \E u \in Tasks \ {t} :
               /\ tasks[u].pc = "map"
               /\ \/ Of(tasks[t].call[1].queryBytes.q.Name).kvLabels.verb # "get"
                  \/ Of(tasks[u].call[1].queryBytes.q.Name).kvLabels.verb # "get"
          /\ tasks' = [u \in Tasks |-> [tasks[u] EXCEPT !.pc = "fatal"]]
    /\ UNCHANGED <<etcdUp, etcdKv, TxtKvCustomizations, BlocklistStrings, BlocklistCDIRs,
                   BlocklistUpdated, Metrics, tokens, filled, sent, now, refresher, log, prev,
                   lookup>>

\* x.Metrics.<counter>++, first half: read the field
RaceLoad(t) ==
    /\ tasks[t].pc = "load"
    /\ tasks' = [tasks EXCEPT ![t].pc = "store", ![t].local = Metrics[Head(tasks[t].incs)]]
    /\ UNCHANGED <<etcdUp, etcdKv, TxtKvCustomizations, BlocklistStrings, BlocklistCDIRs,
                   BlocklistUpdated, Metrics, tokens, filled, sent, now, refresher, log, prev,
                   lookup>>

\* x.Metrics.<counter>++, second half: write the value read plus one
RaceStore(t) ==
    /\ tasks[t].pc = "store"
    /\ Metrics' = [Metrics EXCEPT ![Head(tasks[t].incs)] = tasks[t].local + 1]
    /\ tasks' = [tasks EXCEPT ![t].pc = IF Len(tasks[t].incs) = 1 THEN "return" ELSE "load",
                              ![t].incs = Tail(tasks[t].incs)]
    /\ UNCHANGED <<etcdUp, etcdKv, TxtKvCustomizations, BlocklistStrings, BlocklistCDIRs,
                   BlocklistUpdated, tokens, filled, sent, now, refresher, log, prev, lookup>>

\* the task returns from QueryResponse and ends
RaceReturn(t) ==
    /\ tasks[t].pc = "return"
    /\ log' = log \o tasks[t].call
    /\ tasks' = [tasks EXCEPT ![t] = [pc |-> "idle", incs |-> <<>>, local |-> 0, call |-> <<>>]]
    /\ UNCHANGED <<etcdUp, etcdKv, TxtKvCustomizations, BlocklistStrings, BlocklistCDIRs,
                   BlocklistUpdated, Metrics, tokens, filled, sent, now, refresher, prev, lookup>>

NextRace ==
    \/ \E t \in Tasks : RaceStart(t, RaceQueries)
    \/ \E t \in Tasks : RaceMap(t)
    \/ \E t \in Tasks : RaceLoad(t)
    \/ \E t \in Tasks : RaceStore(t)
    \/ \E t \in Tasks : RaceReturn(t)

SpecRace == Init /\ [][NextRace]_vars

\* the goroutines keep being scheduled: the token goroutine, and each task
\* once it can take a step; the receivers of a Go channel wait in a queue,
\* so a waiting task is not overtaken for ever
NextLive ==
    \/ \E t \in Tasks : RaceStart(t, LiveQueries)
    \/ \E t \in Tasks : RaceRecv(t)
    \/ \E t \in Tasks : RaceLoad(t)
    \/ \E t \in Tasks : RaceStore(t)
    \/ \E t \in Tasks : RaceReturn(t)
    \/ ProducerFill
    \/ ProducerSend

SpecLive ==
    /\ Init
    /\ [][NextLive]_vars
    /\ WF_vars(ProducerFill)
    /\ WF_vars(ProducerSend)
    /\ \A t \in Tasks : SF_vars(RaceRecv(t))
    /\ \A t \in Tasks : WF_vars(RaceLoad(t) \/ RaceStore(t) \/ RaceReturn(t))

-----------------------------------------------------------------------------
(* NameToA and NameToAAAA called on a name, outside any query *)

\* addresses whose text, written with dashes, is looked up
IPv6Addresses ==
    {Zeroes(16),
     Zeroes(15) \o <<1>>,
     <<0, 1>> \o Zeroes(14),
     <<255, 254, 253, 252, 251, 250, 249, 248, 247, 246, 245, 244, 243, 242, 241, 240>>,
     <<32, 6, 65, 208, 0, 2, 224, 30, 0, 0, 0, 0, 86, 219, 53, 152>>,
     <<0, 1, 0, 2, 0, 3, 0, 0, 0, 0, 0, 4, 0, 5, 0, 6>>,
     <<0, 1, 0, 0, 0, 0, 0, 2, 0, 0, 0, 0, 0, 0, 0, 3>>,
     <<0, 1, 0, 2, 0, 3, 0, 0, 0, 4, 0, 5, 0, 6, 0, 7>>,
     nsAwsAAAA.AAAA,
     <<254, 128>> \o Zeroes(13) \o <<1>>,
     Zeroes(12) \o <<1, 2, 3, 4>>,
     V4InV6Prefix \o <<1, 2, 3, 4>>}

\* the names looked up
LookupNames ==
    {"", "nono.io", "www.sslip.io", "538.sslip.io", "256.254.253.252",
     "ns-hetzner.sslip.io", "p-ns-hetzner.sslip.io", "www-192.0-2.3.example-me.com",
     "127.0.0.1", "255.254.253.252.com", "nono.io.0.1.2.3.ssLIp.IO",
     "100-64-1-2", "169-254-168-253-com", "www-192-0-0-1-com",
     "minio-01.192-168-1-100.sslip.io",
     "ubuntu20.04.235.249.181-notify.sslip.io.", "01-2-3-4.sslip.io.",
     "nono.io.172.16.0.30.172.31.255.255.sslip.io",
     "nono.io.127.0.0.1.192.168.0.1.sslip.io", "1-2-3-4.5-6-7-8.sslip.io.",
     "nono.io.127.0.0.1.192-168-0-1.sslip.io", "192-168-0-1.127.0.0.1.sslip.io.",
     "04-1-2-3.9-9-9-9.5.6.7.8.sslip.io.",
     "sslip.io.", "SSLIP.io.", "NS.SSLIP.IO.", "Ns-Aws.sslip.IO.", "ns-azure.SSLIP.IO.",
     "ns-GCE.sslip.io.", "IP.sslip.io.",
     "-1", "--g", "www.fffe-fdfc-fbfa-f9f8-f7f6-f5f4-f3f2-f1f0.com",
     "2006-41d0-2-e01e--56dB-3598.sSLIP.io.", "--ffff-1.2.3.4"}
        \cup {ReplaceChar(IPString(X), ":", "-") : X \in IPv6Addresses}

\* a name is given
LookupInit ==
    /\ NewXip
    /\ lookup \in [fqdnString : LookupNames, pc : {"NameToA"}, A : {<<>>}, AAAA : {<<>>}]

LookupA ==
    /\ lookup.pc = "NameToA"
    /\ lookup' = [lookup EXCEPT !.A = NameToA(lookup.fqdnString), !.pc = "NameToAAAA"]
    /\ UNCHANGED <<etcdUp, etcdKv, TxtKvCustomizations, BlocklistStrings, BlocklistCDIRs,
                   BlocklistUpdated, Metrics, tokens, filled, sent, now, refresher, log, prev,
                   tasks>>

LookupAAAA ==
    /\ lookup.pc = "NameToAAAA"
    /\ lookup' = [lookup EXCEPT !.AAAA = NameToAAAA(lookup.fqdnString), !.pc = "done"]
    /\ UNCHANGED <<etcdUp, etcdKv, TxtKvCustomizations, BlocklistStrings, BlocklistCDIRs,
                   BlocklistUpdated, Metrics, tokens, filled, sent, now, refresher, log, prev,
                   tasks>>

NextLookup == LookupA \/ LookupAAAA

SpecLookup == LookupInit /\ [][NextLookup]_vars

-----------------------------------------------------------------------------
(* The latest call of QueryResponse and what it returned *)

Called == Len(log) > 0

Last == log[Len(log)]

LastQ == Last.queryBytes.q

LastResponse == Last.message[1]

\* the name is handled as an ACME delegation: it is an ACME challenge name
\* and was not blocklisted when the call started
Delegated(name) == Of(name).IsAcmeChallenge /\ ~blocklist(prev, name)

AcmePrefix == "_acme-challenge."

\* the name is _acme-challenge.<rest> and <rest> embeds an IP literal
AcmeForm(name) ==
    /\ Len(name) > Len(AcmePrefix)
    /\ SubSeq(name, 1, Len(AcmePrefix)) = AcmePrefix
    /\ LET rest == SubSeq(name, Len(AcmePrefix) + 1, Len(name))
       IN Len(Of(rest).NameToA) > 0 \/ Len(Of(rest).NameToAAAA) > 0

AcmeRest(name) == SubSeq(name, Len(AcmePrefix) + 1, Len(name))

\* the outcome claim C2 describes
AcmeNSOutcome ==
    /\ ~Last.err
    /\ LastResponse.Answers = <<>>
    /\ LastResponse.Authorities =
         <<RR(LastQ.Name, "TypeNS", WeekTTL, [NS |-> AcmeRest(LastQ.Name)])>>
    /\ ~LastResponse.Header.Authoritative

\* C2 as stated: an NS query for _acme-challenge.<rest>, <rest> embedding an
\* IP literal, returns exactly one NS record naming <rest>, in the authority
\* section and not the answer section, with the authoritative flag cleared.
C2_Original ==
    (Called /\ LastQ.Type = "TypeNS" /\ AcmeForm(LastQ.Name)) => AcmeNSOutcome

\* C2 as amended: the same, for a name that is not blocklisted when queried.
C2_AcmeNSDelegation ==
    (Called /\ LastQ.Type = "TypeNS" /\ AcmeForm(LastQ.Name) /\ ~blocklist(prev, LastQ.Name))
    => AcmeNSOutcome

C2_Witness ==
    /\ Called /\ LastQ.Type = "TypeNS" /\ AcmeForm(LastQ.Name)
    /\ ~blocklist(prev, LastQ.Name)
    /\ prev.BlocklistStrings # <<>>
    /\ AcmeNSOutcome

\* the outcome claim C3 describes
NotImplementedOutcome ==
    /\ ~Last.err
    /\ LastResponse.Header.RCode = "RCodeNotImplemented"
    /\ LastResponse.Answers = <<>>
    /\ LastResponse.Authorities = <<>>
    /\ LastResponse.Additionals = <<>>

\* C3 as stated: every query of type ANY, whatever its name, yields RCODE
\* NotImplemented with no answer, authority or additional records.
C3_Original == (Called /\ LastQ.Type = "TypeALL") => NotImplementedOutcome

\* C3 as amended: every query of type ANY whose name is not handled as an
\* ACME delegation yields RCODE NotImplemented with no records.
C3_AnyNotImplemented ==
    (Called /\ LastQ.Type = "TypeALL" /\ ~Delegated(LastQ.Name)) => NotImplementedOutcome

C3_Witness ==
    /\ Called /\ LastQ.Type = "TypeALL" /\ Of(LastQ.Name).IsAcmeChallenge
    /\ ~Delegated(LastQ.Name)
    /\ NotImplementedOutcome

NonPublicNets ==
    {ParseCIDR(s) : s \in {"10.0.0.0/8", "172.16.0.0/12", "192.168.0.0/16", "100.64.0.0/10",
                           "169.254.0.0/16", "fe80::/10", "127.0.0.0/8", "::1/128",
                           "fc00::/7", "2001:20::/28", "2001:db8::/32", "64:ff9b:1::/48"}}

\* the addresses a name embeds
Embedded(name) ==
    {Of(name).NameToA[i].A : i \in 1..Len(Of(name).NameToA)}
    \cup {Of(name).NameToAAAA[i].AAAA : i \in 1..Len(Of(name).NameToAAAA)}

NonPublicNames ==
    {name \in Names : Embedded(name) # {} /\
                      \A ip \in Embedded(name) : \E net \in NonPublicNets : CIDRContains(net, ip)}

\* C4: for every hostname whose embedded IP literal lies in a non-public
\* range, blocklist(hostname) is false whatever the blocklist holds.
C4_NonPublicNeverBlocked == \A hostname \in NonPublicNames : ~blocklist(Xip, hostname)

Sink == Customizations["ns-aws.sslip.io."]

\* a blocklisted A or AAAA query whose name yields an address
BlockedA == Called /\ LastQ.Type = "TypeA" /\ Len(Of(LastQ.Name).NameToA) > 0
            /\ blocklist(prev, LastQ.Name)

BlockedAAAA == Called /\ LastQ.Type = "TypeAAAA" /\ Len(Of(LastQ.Name).NameToAAAA) > 0
               /\ blocklist(prev, LastQ.Name)

\* the answer is the sink record alone and the blocked counter rose by one
SinkOutcome(type, record) ==
    /\ ~Last.err
    /\ LastResponse.Answers = <<RR(LastQ.Name, type, WeekTTL, record)>>
    /\ Metrics.AnsweredBlockedQueries = prev.Metrics.AnsweredBlockedQueries + 1

\* C5 as stated: a blocklisted A (AAAA) query whose name yields an address
\* is answered with exactly one record, the first A (AAAA) record of
\* ns-aws.sslip.io., never the address embedded in the name, and the blocked
\* counter rises by exactly one.
C5_Original ==
    /\ BlockedA => (SinkOutcome("TypeA", Sink.A[1])
                    /\ LastResponse.Answers[1].Body.A \notin Embedded(LastQ.Name))
    /\ BlockedAAAA => (SinkOutcome("TypeAAAA", Sink.AAAA[1])
                       /\ LastResponse.Answers[1].Body.AAAA \notin Embedded(LastQ.Name))

\* C5 as amended: the answer is exactly that one record and the counter rises
\* by one; the record differs from the address embedded in the name unless
\* the name embeds the address of ns-aws.sslip.io. itself.
C5_BlockedAnswersSink ==
    /\ BlockedA => (SinkOutcome("TypeA", Sink.A[1])
                    /\ (Sink.A[1].A \notin Embedded(LastQ.Name)
                        => LastResponse.Answers[1].Body.A \notin Embedded(LastQ.Name)))
    /\ BlockedAAAA => (SinkOutcome("TypeAAAA", Sink.AAAA[1])
                       /\ (Sink.AAAA[1].AAAA \notin Embedded(LastQ.Name)
                           => LastResponse.Answers[1].Body.AAAA \notin Embedded(LastQ.Name)))

C5_Witness ==
    /\ BlockedA
    /\ Sink.A[1].A \notin Embedded(LastQ.Name)
    /\ SinkOutcome("TypeA", Sink.A[1])

\* the download failed: a transport error, a status outside 2xx, or a body
\* that could not be read to its end
FetchFailed(get) == get.err \/ get.StatusCode > 299 \/ get.Body.scanErr

\* C6: a blocklist fetch that ends in a transport error, a status outside
\* 2xx or a parse failure leaves BlocklistStrings, BlocklistCDIRs and
\* BlocklistUpdated as they were: while the latest fetch is a failed one, no
\* step changes them.
C6_FailedFetchRetains == [][FetchFailed(refresher.get) => Blocklist' = Blocklist]_vars

\* the call did a round trip to etcd
UsesEtcd(call) ==
    LET q == call.queryBytes.q
        labels == Of(q.Name).kvLabels
    IN /\ etcdUp
       /\ q.Type = "TypeTXT" /\ Of(q.Name).kvMatch /\ ~Of(q.Name).IsAcmeChallenge
       /\ \/ labels.verb \in {"get", "delete"}
          \/ labels.verb = "put" /\ labels.n > 2

EtcdFailed == Called /\ UsesEtcd(Last) /\ ~Last.etcdOk

KnownTypes ==
    {"TypeA", "TypeAAAA", "TypeALL", "TypeCNAME", "TypeMX", "TypeNS", "TypeSOA", "TypeTXT"}

\* an A or AAAA query whose name yields no address, or a query of a type the
\* server does not know
NoData ==
    /\ Called
    /\ LastQ # Malformed
    /\ \/ LastQ.Type = "TypeA" /\ Len(Of(LastQ.Name).NameToA) = 0
       \/ LastQ.Type = "TypeAAAA" /\ Len(Of(LastQ.Name).NameToAAAA) = 0
       \/ LastQ.Type \notin KnownTypes

\* exactly one SOA record, whose MNAME is the queried name, in the authority
\* section
OneSOA ==
    /\ Len(LastResponse.Authorities) = 1
    /\ LastResponse.Authorities[1].Type = "TypeSOA"
    /\ LastResponse.Authorities[1].Body = SOAResource(LastQ.Name)
    /\ LastResponse.Authorities[1].Body.NS = LastQ.Name

NoDataOutcome ==
    /\ ~Last.err
    /\ LastResponse.Header.RCode = "RCodeSuccess"
    /\ LastResponse.Answers = <<>>
    /\ OneSOA

\* C8 as stated: an A or AAAA query whose name yields no address, and every
\* query of an unrecognised type, gets RCODE NOERROR, no answer, and one SOA
\* record in the authority section whose MNAME is the queried name.
C8_Original == NoData => NoDataOutcome

\* C8 as amended: the same, for a name that is not handled as an ACME
\* delegation.
C8_NoDataGetsSOA == (NoData /\ ~Delegated(LastQ.Name)) => NoDataOutcome

C8_Witness ==
    /\ NoData /\ LastQ.Type \notin KnownTypes
    /\ Of(LastQ.Name).IsAcmeChallenge /\ ~Delegated(LastQ.Name)
    /\ NoDataOutcome

\* a TXT query for a name that is no ACME challenge, is not under k-v.io and
\* has no TXT producer in the customization table
PlainTXT ==
    /\ Called /\ LastQ.Type = "TypeTXT"
    /\ ~Of(LastQ.Name).IsAcmeChallenge
    /\ ~Of(LastQ.Name).kvMatch
    /\ \/ Of(LastQ.Name).ToLower \notin DOMAIN Customizations
       \/ Customizations[Of(LastQ.Name).ToLower].TXT = "nil"

\* C9: such a query returns an empty answer section and one SOA record in
\* the authority section.
C9_PlainTXTGetsSOA ==
    PlainTXT => (/\ ~Last.err
                 /\ LastResponse.Answers = <<>>
                 /\ Len(LastResponse.Authorities) = 1
                 /\ LastResponse.Authorities[1].Type = "TypeSOA")

AcmeTXT == Called /\ LastQ.Type = "TypeTXT" /\ Of(LastQ.Name).IsAcmeChallenge

DefaultNS == RRs(LastQ.Name, "TypeNS", WeekTTL, NameServers)

StrippedNS ==
    <<RR(LastQ.Name, "TypeNS", WeekTTL, [NS |-> Of(LastQ.Name).dns01ChallengeStrip])>>

\* C10 as stated: a TXT query for an ACME challenge name returns no answers,
\* authoritative=false, and an authority section holding the default name
\* server list, not an NS record naming the stripped name.
C10_Original ==
    AcmeTXT => (/\ ~Last.err
                /\ LastResponse.Answers = <<>>
                /\ ~LastResponse.Header.Authoritative
                /\ LastResponse.Authorities = DefaultNS)

\* C10 as amended: it returns no answers and authoritative=false; the
\* authority section holds the one NS record naming the stripped name, and
\* holds the default name server list only when the name is blocklisted.
C10_AcmeTXTDelegation ==
    AcmeTXT => (/\ ~Last.err
                /\ LastResponse.Answers = <<>>
                /\ ~LastResponse.Header.Authoritative
                /\ LastResponse.Authorities =
                     IF blocklist(prev, LastQ.Name) THEN DefaultNS ELSE StrippedNS)

C10_Witness ==
    /\ AcmeTXT /\ ~Last.err
    /\ blocklist(prev, LastQ.Name)
    /\ LastResponse.Authorities = DefaultNS
    /\ ~LastResponse.Header.Authoritative

-----------------------------------------------------------------------------
(* Sequences of key-value queries *)

Labels(call) == Of(call.queryBytes.q.Name).kvLabels

\* the call is the TXT query put.V.K.k-v.io, for some V
IsPut(call, K) == Labels(call).verb = "put" /\ Labels(call).n > 2 /\ Labels(call).key = K

\* the call is the TXT query delete.K.k-v.io
IsDelete(call, K) == Labels(call).verb = "delete" /\ Labels(call).n = 2 /\ Labels(call).key = K

\* the call is the TXT query K.k-v.io
IsGet(call, K) == Labels(call).verb = "get" /\ Labels(call).n = 1 /\ Labels(call).key = K

\* no call strictly between the i-th and the j-th is a put or a delete on K
Undisturbed(i, j, K) ==
    \A k \in (i + 1)..(j - 1) :
       ~(Labels(log[k]).key = K /\ Labels(log[k]).verb \in {"put", "delete"})

\* the call was answered with these TXT records and nothing else
Returns(call, txts) ==
    /\ ~call.err
    /\ call.message[1].Answers = RRs(call.queryBytes.q.Name, "TypeTXT", KvTTL, txts)

First63(V) == IF Len(V) > 63 THEN SubSeq(V, 1, 63) ELSE V

-----------------------------------------------------------------------------
(* The token channel *)

\* the calls that were answered with the metrics of metrics.status.sslip.io
MetricsAnswered ==
    {i \in 1..Len(log) :
        /\ ~log[i].err
        /\ log[i].queryBytes.q.Type = "TypeTXT"
        /\ ToLower(log[i].queryBytes.q.Name) = "metrics.status.sslip.io."}

\* C11: every metrics.status.sslip.io TXT answer takes exactly one token out
\* of the channel, so the answers given and the tokens still in the channel
\* add up to the tokens the producer has sent: at most MetricsBufferSize by
\* its first loop and one for each iteration of its second loop; the channel
\* never holds more than its buffer.
C11_AnswersTakeTokens ==
    /\ tokens + Cardinality(MetricsAnswered) = filled + sent
    /\ Cardinality(MetricsAnswered) <= filled + sent
    /\ filled <= MetricsBufferSize
    /\ tokens \in 0..MetricsBufferSize

\* a metrics answer emptied the channel and the producer sent a token again
C11_Witness ==
    /\ Cardinality(MetricsAnswered) = 1
    /\ Len(LastResponse.Answers) = 13
    /\ sent = 1
    /\ tokens = MetricsBufferSize

-----------------------------------------------------------------------------
(* The counters under concurrent queries *)

\* C12: every counter of x.Metrics is monotonically non-decreasing over the
\* process lifetime: no step of any interleaving of concurrently handled
\* queries lowers a counter.
C12_CountersMonotone ==
    [][\A counter \in DOMAIN Metrics : Metrics'[counter] >= Metrics[counter]]_vars

-----------------------------------------------------------------------------
(* The values the key-value store holds *)

\* the values held by the builtin map and by etcd
StoredValues ==
    {TxtKvCustomizations[k][1].TXT[1] : k \in DOMAIN TxtKvCustomizations}
        \cup {etcdKv[k] : k \in DOMAIN etcdKv}

\* the value the store in use holds under K, as a set
StoredUnder(K) ==
    IF etcdUp THEN {etcdKv[k] : k \in DOMAIN etcdKv \cap {K}}
    ELSE {TxtKvCustomizations[k][1].TXT[1] : k \in DOMAIN TxtKvCustomizations \cap {K}}

\* the i-th call was a put that reached putKv and was answered
PutAnswered(i) ==
    /\ IsPut(log[i], Labels(log[i]).key)
    /\ ~Of(log[i].queryBytes.q.Name).IsAcmeChallenge
    /\ ~log[i].err

\* C13: after any sequence of key-value operations every value held in the
\* store has at most 63 bytes; an answered put.V.K.k-v.io has written the
\* first 63 bytes of V under K and returned them as its single TXT record,
\* and a get of K that follows it and is answered returns that same record.
C13_StoredValuesShort ==
    /\ \A v \in StoredValues : Len(v) <= 63
    /\ \A i \in 1..Len(log) :
         LET K == Labels(log[i]).key
             V == Labels(log[i]).value
         IN PutAnswered(i) =>
              /\ Returns(log[i], <<TXT(First63(V))>>)
              /\ (i = Len(log) => StoredUnder(K) = {First63(V)})
              /\ (i < Len(log) /\ IsGet(log[i + 1], K) /\ ~log[i + 1].err
                    => Returns(log[i + 1], <<TXT(First63(V))>>))

\* a put of a value longer than 63 bytes, answered, and then a get of its key
C13_Witness ==
    /\ Len(log) = 2
    /\ PutAnswered(1)
    /\ Len(Labels(log[1]).value) > 63
    /\ IsGet(log[2], Labels(log[1]).key)
    /\ Returns(log[2], <<TXT(SubSeq(Labels(log[1]).value, 1, 63))>>)
    /\ \E v \in StoredValues : Len(v) = 63

-----------------------------------------------------------------------------
(* Key-value queries that cannot be processed *)

\* the latest call is a key-value query answered with the one TXT record
\* message, with no error, and the store is as it was when the call started
Unprocessable(message) ==
    /\ Returns(Last, <<TXT(message)>>)
    /\ LastResponse.Header.RCode = "RCodeSuccess"
    /\ etcdKv = prev.etcdKv
    /\ TxtKvCustomizations = prev.TxtKvCustomizations

-----------------------------------------------------------------------------
(* Names in the customization table *)

\* both functions have been called on the name
LookedUp == lookup.pc = "done"

-----------------------------------------------------------------------------
(* IPv4 literals in a name *)

\* t is four octets, as the recognisers accept them, joined by sep
Quad(t, sep) ==
    /\ Len(Split(t, sep)) = 4
    /\ \A k \in 1..4 : OctetText(Split(t, sep)[k])

\* the places <<i, j>> of the name where an IPv4 literal written with sep
\* stands: at the start of the name or after a dot or a dash, and at its end
\* or before a dot or a dash
Literals(s, sep) ==
    {ij \in (1..Len(s)) \X (1..Len(s)) :
       /\ ij[2] - ij[1] \in 6..14
       /\ ij[1] = 1 \/ Char(s, ij[1] - 1) \in {".", "-"}
       /\ ij[2] = Len(s) \/ Char(s, ij[2] + 1) \in {".", "-"}
       /\ Quad(SubSeq(s, ij[1], ij[2]), sep)}

\* the one A record of the literal at ij: its octets read as decimal numbers
RecordAt(s, ij, sep) ==
    <<[A |-> [k \in 1..4 |-> NumVal(Split(SubSeq(s, ij[1], ij[2]), sep)[k], 10)]]>>

Uncustomized == ToLower(lookup.fqdnString) \notin DOMAIN Customizations

\* C16: for every name that the dashed or the dotted IPv4 recogniser matches,
\* NameToA returns exactly one A record, whose four bytes are the decimal
\* octets of a literal matched in the name; for a name that neither matches
\* it returns the empty sequence.
C16_IPv4NamesResolve ==
    (LookedUp /\ Uncustomized)
    => LET s == lookup.fqdnString
       IN IF Literals(s, "-") \cup Literals(s, ".") = {}
          THEN lookup.A = <<>>
          ELSE \/ \E ij \in Literals(s, "-") : lookup.A = RecordAt(s, ij, "-")
               \/ \E ij \in Literals(s, ".") : lookup.A = RecordAt(s, ij, ".")

-----------------------------------------------------------------------------
(* IPv6 addresses written with dashes *)

\* strings.ReplaceAll(addr.String(), ":", "-")
DashForm(X) == ReplaceChar(IPString(X), ":", "-")

-----------------------------------------------------------------------------
(* Several literals in one name *)

\* the IPv4 literals of the name, each with its notation
AllLiterals(s) ==
    {[ij |-> ij, sep |-> "-"] : ij \in Literals(s, "-")}
        \cup {[ij |-> ij, sep |-> "."] : ij \in Literals(s, ".")}

\* the literal of S that starts first
LeftmostOf(S) == CHOOSE l \in S : \A m \in S : l.ij[1] <= m.ij[1]

DashedOf(S) == {l \in S : l.sep = "-"}

\* an octet of the literal is written with a leading zero
LeadingZero(s, l) ==
    \E k \in 1..4 :
       LET t == Split(SubSeq(s, l.ij[1], l.ij[2]), l.sep)[k]
       IN Len(t) > 1 /\ Char(t, 1) = "0"

\* what NameToA gives when it answers from the literal l
AnswerFrom(s, l) == IF LeadingZero(s, l) THEN <<>> ELSE RecordAt(s, l.ij, l.sep)

Several == LookedUp /\ Uncustomized /\ Cardinality(AllLiterals(lookup.fqdnString)) > 1

\* C18 as stated: for a name containing several IP literals, NameToA returns
\* the record of the leftmost literal in the name.
C18_Original ==
    Several =>
      LET s == lookup.fqdnString
          l == LeftmostOf(AllLiterals(s))
      IN lookup.A = RecordAt(s, l.ij, l.sep)

\* C18: for a name containing several IPv4 literals, NameToA answers from one
\* literal alone: the leftmost dashed literal when the name has a dashed one,
\* else the leftmost dotted literal.  It returns the one record of that
\* literal, or no record when an octet of it has a leading zero, and never
\* the record of a literal further right in the same notation.
C18_LeftmostOfNotation ==
    Several =>
      LET s == lookup.fqdnString
          S == AllLiterals(s)
      IN lookup.A = AnswerFrom(s, LeftmostOf(IF DashedOf(S) # {} THEN DashedOf(S) ELSE S))

\* two dotted literals: the record is the one of the first
C18_Witness ==
    /\ Several
    /\ lookup.fqdnString = "nono.io.127.0.0.1.192.168.0.1.sslip.io"
    /\ <<9, 17>> \in Literals(lookup.fqdnString, ".")
    /\ <<19, 29>> \in Literals(lookup.fqdnString, ".")
    /\ lookup.A = <<[A |-> <<127, 0, 0, 1>>]>>

-----------------------------------------------------------------------------
(* Dashed and dotted literals in one name *)

\* C19: for a name containing both a dashed and a dotted IPv4 literal,
\* NameToA returns the record of a dashed literal, whether the dashed literal
\* stands left or right of the dotted one.
C19_DashedBeatsDotted ==
    (/\ LookedUp
     /\ Uncustomized
     /\ Literals(lookup.fqdnString, "-") # {}
     /\ Literals(lookup.fqdnString, ".") # {})
    => \E ij \in Literals(lookup.fqdnString, "-") :
          lookup.A = RecordAt(lookup.fqdnString, ij, "-")

-----------------------------------------------------------------------------
(* The header of a response *)

\* the latest query went through one of the two ACME branches: the
\* delegation of processQuestion, or the ACME branch of its TXT case
AcmeHandled ==
    \/ Delegated(LastQ.Name)
    \/ Of(LastQ.Name).IsAcmeChallenge /\ LastQ.Type = "TypeTXT"

\* C20: every response QueryResponse returns has Response set and
\* RecursionAvailable clear, carries the ID and the RecursionDesired bit of
\* the query it answers, and has Authoritative set unless the query was
\* handled as an ACME delegation, in which case Authoritative is clear.
C20_ResponseHeader ==
    (Called /\ ~Last.err)
    => /\ LastResponse.Header.Response
       /\ ~LastResponse.Header.RecursionAvailable
       /\ LastResponse.Header.ID = Last.queryBytes.ID
       /\ LastResponse.Header.RecursionDesired = Last.queryBytes.RecursionDesired
       /\ LastResponse.Header.Authoritative = ~AcmeHandled

\* a delegated ACME query, answered with the ID and the bit of the query
C20_Witness ==
    /\ Called
    /\ ~Last.err
    /\ LastQ.Type = "TypeA"
    /\ Delegated(LastQ.Name)
    /\ LastResponse.Header =
         [ID |-> 7, Response |-> TRUE, OpCode |-> 0, Authoritative |-> FALSE,
          Truncated |-> FALSE, RecursionDesired |-> TRUE, RecursionAvailable |-> FALSE,
          RCode |-> "RCodeSuccess"]

-----------------------------------------------------------------------------
(* The sections of a response of NSResponse *)

\* the latest call was answered by NSResponse: an NS query, or a query of
\* any type that is delegated as an ACME challenge
NSBuilt == Called /\ ~Last.err /\ (LastQ.Type = "TypeNS" \/ Delegated(LastQ.Name))

NSIn(section) == SelectSeq(section, LAMBDA rr : rr.Type = "TypeNS")

\* the address records of the name servers named by the NS records
GlueOf(records) ==
    Flatten([i \in 1..Len(records) |->
               RRs(records[i].Body.NS, "TypeA", WeekTTL, Of(records[i].Body.NS).NameToA)
               \o RRs(records[i].Body.NS, "TypeAAAA", WeekTTL,
                      Of(records[i].Body.NS).NameToAAAA)])

\* C21: in every response built by NSResponse the NS records are in the
\* answer section if and only if the authoritative flag is set, and
\* otherwise in the authority section, never in both; the additional section
\* holds, for each NS name returned and in their order, the A records and
\* then the AAAA records that NameToA and NameToAAAA give for that name.
C21_NSSections ==
    NSBuilt =>
      /\ NSIn(LastResponse.Answers) # <<>> <=> LastResponse.Header.Authoritative
      /\ NSIn(LastResponse.Authorities) # <<>> <=> ~LastResponse.Header.Authoritative
      /\ LastResponse.Additionals =
           GlueOf(NSIn(LastResponse.Answers) \o NSIn(LastResponse.Authorities))

\* a delegation: one NS record in the authorities, with its address as glue
C21_Witness ==
    /\ NSBuilt
    /\ LastQ.Type = "TypeMX"
    /\ ~LastResponse.Header.Authoritative
    /\ LastResponse.Answers = <<>>
    /\ Len(NSIn(LastResponse.Authorities)) = 1
    /\ Len(LastResponse.Additionals) = 1
    /\ LastResponse.Additionals[1].Type = "TypeA"
-----------------------------------------------------------------------------
(* ReadBlocklist's two lists *)

\* ReadBlocklist has just returned the lists it made of the body
Downloaded ==
    /\ refresher.pc = "BlocklistStrings"
    /\ ~refresher.get.err
    /\ refresher.get.StatusCode <= 299
    /\ ~refresher.get.Body.scanErr
    /\ refresher.get.Body.lines # <<>>

\* a line after the clean-up: lowercased, its comment and the characters
\* outside [-_0-9a-z/.:] removed
CleanedUp(text) ==
    LET lower == ToLower(text)
        upto == IF \E i \in 1..Len(lower) : Char(lower, i) = "#"
                THEN Min({i \in 1..Len(lower) : Char(lower, i) = "#"}) - 1
                ELSE Len(lower)
    IN Keep(SubSeq(lower, 1, upto), DNSchars \cup {"/", ".", ":"})

\* C22: every substring entry ReadBlocklist returns is non-empty and made of
\* [a-z0-9_-] alone, and every line that parses as a CIDR after the clean-up
\* is in the CIDR list and not in the substring list
C22_BlocklistEntries ==
    Downloaded =>
      /\ \A i \in 1..Len(refresher.blocklistStrings) :
            /\ refresher.blocklistStrings[i] # ""
            /\ \A j \in 1..Len(refresher.blocklistStrings[i]) :
                  Char(refresher.blocklistStrings[i], j) \in DNSchars
      /\ \A l \in 1..Len(refresher.get.Body.lines) :
            LET line == CleanedUp(refresher.get.Body.lines[l])
            IN ParseCIDR(line) # NoCIDR =>
                 /\ \E i \in 1..Len(refresher.blocklistCDIRs) :
                       refresher.blocklistCDIRs[i] = ParseCIDR(line)
                 /\ \A i \in 1..Len(refresher.blocklistStrings) :
                       refresher.blocklistStrings[i] # Keep(line, DNSchars)

C22_Witness ==
    /\ Downloaded
    /\ refresher.blocklistStrings = <<"raiffeisen", "gamma", "1099933", "no-yelling_">>
    /\ Len(refresher.blocklistCDIRs) = 3
    /\ refresher.blocklistCDIRs[3] = [IP |-> <<43, 134, 66, 0>>, Ones |-> 24, Bits |-> 32]

-----------------------------------------------------------------------------
(* The blocklist a handler sees while the blocklist goroutine stores one *)

\* the last call was an A query that got as far as x.blocklist
EvaluatedBlocklist ==
    Called /\ ~Last.err /\ LastQ.Type = "TypeA" /\ Len(Of(LastQ.Name).NameToA) > 0

\* the pairs of lists that are one whole blocklist: that of NewXip and those
\* of the downloads
WholeBlocklists ==
    {<<(<<>>), (<<>>)>>} \cup
    {<<readBlocklist(get).blocklistStrings, readBlocklist(get).blocklistCDIRs>> :
       get \in {g \in HTTPGets : ~readBlocklist(g).err}}

\* C23: a handler that runs while the blocklist is refreshed evaluates
\* x.blocklist against the whole blocklist of before the refresh or the whole
\* blocklist of after it, never the substrings of one with the CIDRs of the
\* other
C23_BlocklistSnapshot ==
    EvaluatedBlocklist =>
      <<prev.BlocklistStrings, prev.BlocklistCDIRs>> \in WholeBlocklists

-----------------------------------------------------------------------------
(* The map TxtKvCustomizations under concurrent queries *)

\* the map operation task t is in: none, a read or a write
InMap(t) ==
    IF tasks[t].pc # "map" THEN "none"
    ELSE IF Of(tasks[t].call[1].queryBytes.q.Name).kvLabels.verb = "get" THEN "read"
    ELSE "write"

\* C24: without an external store the accesses to the map are serialized: in
\* no interleaving of concurrently handled queries is a put or a delete in
\* the map at the same time as another get, put or delete
C24_MapAccessSerialized ==
    \A t, u \in Tasks : (t # u /\ InMap(t) = "write") => InMap(u) = "none"

-----------------------------------------------------------------------------
(* The channel of tokens and the queries that wait at it *)

TokensBounded == tokens <= MetricsBufferSize

\* task t is at the receive from the channel
Waiting(t) == tasks[t].pc = "recv"

\* task t has returned from QueryResponse
Answered(t) == tasks[t].pc = "idle"

\* C29: while the token goroutine keeps being scheduled, every query for the
\* metrics that waits at the receive from the channel receives a token and
\* returns its answer; the goroutine never stops adding tokens, and the
\* channel never holds more than MetricsBufferSize of them
C29_WaitingQueriesAnswered ==
    /\ \A t \in Tasks : Waiting(t) ~> Answered(t)
    /\ (tokens < MetricsBufferSize) ~> (tokens = MetricsBufferSize)
    /\ []TokensBounded

\* a task waits with the channel empty after the tokens of the first loop
\* were taken, and the queries before it were answered
C29_Witness ==
    /\ \E t \in Tasks : Waiting(t)
    /\ tokens = 0
    /\ filled = MetricsBufferSize
    /\ Len(log) = MaxRaceCalls - 1
    /\ \A i \in 1..Len(log) :
         /\ log[i].queryBytes.q = [Name |-> "metrics.status.sslip.io.", Type |-> "TypeTXT"]
         /\ log[i].message # <<>>

-----------------------------------------------------------------------------
(* How a name under k-v.io is read *)

\* the labels of the name of the last call, to the left of k-v.io
LastLabels ==
    LET all == Split(LastQ.Name, ".")
    IN [i \in 1..(Len(all) - 3) |-> all[i]]

\* the last call was a TXT query under k-v.io that was answered as one
KvAnswered ==
    /\ Called /\ ~Last.err /\ LastQ.Type = "TypeTXT"
    /\ Of(LastQ.Name).kvMatch /\ ~Of(LastQ.Name).IsAcmeChallenge

\* what the store in use held under K when the last call began, as a set
StoredBefore(K) ==
    IF etcdUp THEN {prev.etcdKv[k] : k \in DOMAIN prev.etcdKv \cap {K}}
    ELSE {prev.TxtKvCustomizations[k][1].TXT[1] : k \in DOMAIN prev.TxtKvCustomizations \cap {K}}

\* C25: a name of one label is a get of the key that label names; with two or
\* more labels the leftmost is the verb and the rightmost the key; with three
\* or more the labels in between, joined by dots with their case kept, are
\* the value; verb and key are compared without regard to case, so names that
\* differ only in the case of verb or key address the same entry
C25_LabelDecoding ==
    KvAnswered =>
      LET n == Len(LastLabels)
          verb == IF n = 1 THEN "get" ELSE ToLower(LastLabels[1])
          key == ToLower(LastLabels[n])
          value == Join([i \in 1..(n - 2) |-> LastLabels[i + 1]], ".")
      IN /\ verb = "get" =>
              /\ StoredUnder(key) = StoredBefore(key)
              /\ Returns(Last, IF StoredBefore(key) = {} THEN <<>>
                               ELSE <<TXT(CHOOSE v \in StoredBefore(key) : TRUE)>>)
         /\ (verb = "put" /\ n >= 3) =>
              /\ StoredUnder(key) = {First63(value)}
              /\ Returns(Last, <<TXT(First63(value))>>)
         /\ verb = "delete" =>
              /\ StoredUnder(key) = {}
              /\ Returns(Last, <<>>)

\* PuT.W.x.J.k-v.io. was answered, and then j.k-v.io. with the value W.x
C25_Witness ==
    /\ Len(log) = 2
    /\ log[1].queryBytes.q.Name = "PuT.W.x.J.k-v.io." /\ ~log[1].err
    /\ LastQ.Name = "j.k-v.io."
    /\ KvAnswered
    /\ Returns(Last, <<TXT("W.x")>>)

-----------------------------------------------------------------------------
(* The total of queries over a sequence of calls *)

\* C26: after n sequential calls of QueryResponse x.Metrics.Queries has
\* risen by exactly n, one per call, whether the call produced a response or
\* ended in an error
C26_QueriesCountCalls == Metrics.Queries = Len(log)

-----------------------------------------------------------------------------
(* The blocklist and the case of a name *)

\* C27: the verdict of x.blocklist does not depend on the case of the
\* letters: for every hostname and every state of the blocklist it is the
\* verdict for the lowercased hostname, so that no name escapes a substring
\* of the blocklist by its upper-case letters
C27_BlocklistIgnoresCase ==
    \A hostname \in Names : blocklist(Xip, hostname) = blocklist(Xip, Of(hostname).ToLower)

-----------------------------------------------------------------------------
(* What a query for a blocklisted name returns *)

\* the last call was answered for a name that was blocklisted when it began
BlockedCall == Called /\ ~Last.err /\ blocklist(prev, LastQ.Name)

\* the records of the three sections of the last response
AllRecords == LastResponse.Answers \o LastResponse.Authorities \o LastResponse.Additionals

AddressRecords == SelectSeq(AllRecords, LAMBDA rr : rr.Type \in {"TypeA", "TypeAAAA"})

\* the addresses the name of the last call embeds, as record bodies
EmbeddedBodies ==
    {Of(LastQ.Name).NameToA[i] : i \in 1..Len(Of(LastQ.Name).NameToA)}
      \cup {Of(LastQ.Name).NameToAAAA[i] : i \in 1..Len(Of(LastQ.Name).NameToAAAA)}

\* the addresses of the sink and of the default name servers, as record bodies
OwnAddresses ==
    {Sink.A[1], Sink.AAAA[1]}
      \cup {NSAdditionals(NameServers)[i].Body : i \in 1..Len(NSAdditionals(NameServers))}

\* no NS record names the stripped name, and the NS records are none or the
\* default name servers
OnlyDefaultNS ==
    /\ \A i \in 1..Len(AllRecords) :
         (AllRecords[i].Type = "TypeNS" /\ Of(LastQ.Name).IsAcmeChallenge)
           => AllRecords[i].Body.NS # Of(LastQ.Name).dns01ChallengeStrip
    /\ NSIn(AllRecords) \in {<<>>, DefaultNS}

\* C28 as stated: for every query type, a query for a blocklisted name never
\* produces an NS record naming the stripped _acme-challenge target and
\* never returns the address embedded in the name; its NS records are the
\* default name server list alone
C28_Original ==
    BlockedCall =>
      /\ OnlyDefaultNS
      /\ \A i \in 1..Len(AddressRecords) : AddressRecords[i].Body \notin EmbeddedBodies

\* C28 as amended: the same, where every address it returns is an address of
\* the sink or of a default name server, which is the address embedded in
\* the name only for a name that embeds one of those
C28_BlockedNeverDelegated ==
    BlockedCall =>
      /\ OnlyDefaultNS
      /\ \A i \in 1..Len(AddressRecords) : AddressRecords[i].Body \in OwnAddresses

\* a blocklisted ACME challenge name was asked for its name servers and got
\* the default ones with their glue
C28_Witness ==
    /\ BlockedCall
    /\ Of(LastQ.Name).IsAcmeChallenge
    /\ LastQ.Type = "TypeNS"
    /\ NSIn(LastResponse.Answers) = DefaultNS
    /\ Len(AddressRecords) > 0
    /\ \A i \in 1..Len(AddressRecords) : AddressRecords[i].Body \notin EmbeddedBodies

-----------------------------------------------------------------------------
(* What a key-value query leaves alone *)

\* the store kept what it held under K, or kept nothing under K, over the
\* last call
Kept(K) ==
    /\ (K \in DOMAIN etcdKv) = (K \in DOMAIN prev.etcdKv)
    /\ K \in DOMAIN etcdKv => etcdKv[K] = prev.etcdKv[K]
    /\ (K \in DOMAIN TxtKvCustomizations) = (K \in DOMAIN prev.TxtKvCustomizations)
    /\ K \in DOMAIN TxtKvCustomizations => TxtKvCustomizations[K] = prev.TxtKvCustomizations[K]

\* the keys held before or after the last call
Keys ==
    DOMAIN etcdKv \cup DOMAIN prev.etcdKv
      \cup DOMAIN TxtKvCustomizations \cup DOMAIN prev.TxtKvCustomizations

\* C30: a get leaves the whole store unchanged; a put or a delete on K leaves
\* the value of every key other than K unchanged; a delete on an absent key
\* changes nothing and still returns an empty record set
C30_KvFrame ==
    (Called /\ LastQ.Type = "TypeTXT" /\ Of(LastQ.Name).kvMatch) =>
      /\ Labels(Last).verb = "get" => \A K \in Keys : Kept(K)
      /\ Labels(Last).verb \in {"put", "delete"} =>
           \A K \in Keys \ {Labels(Last).key} : Kept(K)
      /\ (IsDelete(Last, Labels(Last).key) /\ StoredBefore(Labels(Last).key) = {} /\ ~Last.err) =>
           /\ \A K \in Keys : Kept(K)
           /\ Returns(Last, <<>>)

\* with a value stored under j, a delete of the absent key k was answered
C30_Witness ==
    /\ Len(log) = 2
    /\ IsPut(log[1], "j") /\ ~log[1].err
    /\ IsDelete(Last, "k") /\ ~Last.err
    /\ StoredBefore("k") = {}
    /\ StoredUnder("j") = {"W.x"}
    /\ Returns(Last, <<>>)

====
